---- MODULE Spec2Model ----
(***************************************************************************)
(* A model of MRIImageCache (src/MRIViewportComponent.jsx, lines 691-1057) *)
(* on the JavaScript event loop.  One action is one run to completion:     *)
(* the code between two suspension points (await).  A settled promise      *)
(* queues the continuations of its awaiters as microtasks; tasks (timers,  *)
(* network answers, calls from outside) run only when no microtask waits.  *)
(***************************************************************************)
EXTENDS Integers, Sequences, FiniteSets, TLC

\* ------------------------------------------------------------- bounds
\* calls of the public operations made from outside the cache (getImage,
\* preloadImages, restartPreloading, clearCache, clearFailedUrls)
MaxEvents == 2
\* the same, when only getImage, clearCache and clearFailedUrls are called
MaxDirect == 5
\* preload passes started (preloadImages calls that pass the isPreloading guard)
MaxPasses == 1
\* fetch attempts that fail (timeout, HTTP error, wrong content type)
MaxFailures == 3
\* the same, when only getImage, clearCache and clearFailedUrls are called
MaxDirectFailures == 4
\* calls from outside and passes started, when every fetch succeeds
MaxPreloadEvents == 3
MaxOverlap == 2
\* calls from outside, passes started and failed fetch attempts, where the passes
\* are followed to their end
MaxLiveEvents == 1
MaxLivePasses == 2
MaxLiveFailures == 3
\* the tasks a phase has counted as completed, as failed and as skipped, each
MaxCount == 7

\* ---------------------------------------------------- program constants
maxConcurrentLoads == 3
Retries == 2
DefaultPrioritySlices == <<10, 9, 11, 8, 12>>
ViewportOrder == <<"axial", "sagittal", "coronal">>

\* The manifest: per view an ordered list of URLs, one per slice.
realMRIImages ==
  [axial |-> <<"a0.png", "a1.png">>, sagittal |-> <<"s0.png">>, coronal |-> <<"c0.png">>]

\* The priority lists preloadImages is called with: the default (every index beyond
\* every view), an index of every view, an index beyond the shorter views.
PriorityInputs == {DefaultPrioritySlices, <<0>>, <<1>>}

\* Math.random() * 1000, floor and ceiling of its range
Jitters == {0, 999}

Min(a, b) == IF a < b THEN a ELSE b

RECURSIVE Pow2(_)
Pow2(n) == IF n <= 0 THEN 1 ELSE 2 * Pow2(n - 1)

\* cacheKey = `${viewport}-${sliceNumber}`
CacheKey(viewport, slice) == <<viewport, slice>>
\* retryKey = `${url}-retry`
RetryKey(url) == <<url, "retry">>
\* realMRIImages[viewport][slice], slices counted from 0
UrlOf(key) == realMRIImages[key[1]][key[2] + 1]

Keys ==
  UNION {{CacheKey(v, s) : s \in 0 .. Len(realMRIImages[v]) - 1} : v \in DOMAIN realMRIImages}

Includes(seq, x) == \E i \in 1 .. Len(seq) : seq[i] = x

\* ------------------------------------------------------------- state
VARIABLES
  cache,            \* Map cacheKey -> object URL (handle)
  loadingPromises,  \* Map cacheKey -> promise of a load (its id in loads)
  isPreloading,
  loadingCount,
  cacheStats,       \* {hits, misses, preloaded, failed}
  failedUrls,       \* Set of URLs
  retryDelays,      \* Map retryKey -> delay in ms
  loads,            \* loadImage call chains: one promise each
  calls,            \* getImage calls
  passes,           \* preloadImages runs past the guard
  restarts,         \* restartPreloading calls waiting on the 1 s timer
  events,           \* calls made from outside so far
  queue,            \* microtask queue
  clearedUrls,      \* history: URLs taken off failedUrls by clearFailedUrls, not requested since
  nfail,            \* failed fetch attempts so far
  late,             \* fetches still out on the network after their timeout: <<load, attempt>>
  totalSlices,      \* MRIViewportManager: view -> number of slices
  currentSlices,    \* MRIViewportManager: view -> current slice
  correlationData,  \* MRIViewportManager: null, the loaded table, or {} after a failed load
  sliceupdates,     \* the 'sliceupdate' events dispatched by the latest call, in order
  coefficientKeys,  \* MRIViewportManager: the entries of shoulder_correlations.coefficients
  rejected,         \* MRIViewportManager: the latest call has thrown
  viewerSlices,     \* MRIViewer: currentSlices, view -> current slice
  focusedViewport,  \* MRIViewer: the view whose canvas has the focus, or null
  mriData,          \* MRIViewer: the manifest, view -> number of images (0: not loaded)
  imageCache,       \* MRIViewer: view -> the slices that have an image
  imageCounters,    \* MRIViewer: view -> {total, loaded}
  canvas,           \* MRIViewer: view -> the slice drawn on its canvas, or Blank
  imageLoads,       \* MRIViewer: the Image objects that are loading, in order of creation
  preload,          \* MRIViewer: loadInitialImages and preloadAllImages, where they stand
  inputs,           \* user inputs handled so far, where they are counted
  point,            \* a coefficient entry and a normalized point, in tenths
  selected          \* the slices the two calculateSlice functions select for it

vars ==
  <<cache, loadingPromises, isPreloading, loadingCount, cacheStats, failedUrls,
    retryDelays, loads, calls, passes, restarts, events, queue, clearedUrls, nfail, late,
    totalSlices, currentSlices, correlationData, sliceupdates, coefficientKeys, rejected,
    viewerSlices, focusedViewport, mriData, imageCache, imageCounters, canvas, imageLoads,
    preload, inputs, point, selected>>

managerVars ==
  <<totalSlices, currentSlices, correlationData, sliceupdates, coefficientKeys, rejected>>

viewerVars ==
  <<viewerSlices, focusedViewport, mriData, imageCache, imageCounters, canvas, imageLoads,
    preload>>

formulaVars == <<point, selected>>

cacheVars ==
  <<cache, loadingPromises, isPreloading, loadingCount, cacheStats, failedUrls,
    retryDelays, loads, calls, passes, restarts, events, queue, clearedUrls, nfail, late>>

\* The state as one record, for the operators that run code synchronously.
Cur ==
  [cache |-> cache, loadingPromises |-> loadingPromises, isPreloading |-> isPreloading,
   loadingCount |-> loadingCount, cacheStats |-> cacheStats, failedUrls |-> failedUrls,
   retryDelays |-> retryDelays, loads |-> loads, calls |-> calls, passes |-> passes,
   restarts |-> restarts, events |-> events, queue |-> queue,
   clearedUrls |-> clearedUrls, nfail |-> nfail, late |-> late]

\* The state the code has left becomes the next state (T: S, computed once).
Commit(S) ==
  \E T \in {S} :
    /\ cache' = T.cache
    /\ loadingPromises' = T.loadingPromises
    /\ isPreloading' = T.isPreloading
    /\ loadingCount' = T.loadingCount
    /\ cacheStats' = T.cacheStats
    /\ failedUrls' = T.failedUrls
    /\ retryDelays' = T.retryDelays
    /\ loads' = T.loads
    /\ calls' = T.calls
    /\ passes' = T.passes
    /\ restarts' = T.restarts
    /\ events' = T.events
    /\ queue' = T.queue
    /\ clearedUrls' = T.clearedUrls
    /\ nfail' = T.nfail
    /\ late' = T.late
    /\ UNCHANGED managerVars
    /\ UNCHANGED viewerVars
    /\ UNCHANGED <<inputs, point, selected>>

EmptyMap == [k \in {} |-> 0]
MapSet(m, k, v) == [x \in DOMAIN m \cup {k} |-> IF x = k THEN v ELSE m[x]]
MapDelete(m, k) == [x \in DOMAIN m \ {k} |-> m[x]]

ZeroStats == [hits |-> 0, misses |-> 0, preloaded |-> 0, failed |-> 0]

\* const totalSlices = { axial: 21, sagittal: 21, coronal: 21 }
TestTotalSlices == [v \in {"axial", "sagittal", "coronal"} |-> 21]

\* new MRIViewportManager(viewports, totalSlices): Math.floor(totalSlices[v] / 2)
ManagerConstructor(total) ==
  /\ totalSlices = total
  /\ currentSlices = [v \in DOMAIN total |-> total[v] \div 2]
  /\ correlationData = "null"
  /\ sliceupdates = <<>>
  /\ coefficientKeys = {}
  /\ rejected = FALSE

\* a canvas nothing has been drawn on
Blank == -1

\* loadInitialImages and preloadAllImages before they run: initial is the place in
\* ['sagittal', 'axial', 'coronal'] of the view whose first image is awaited
\* (0: not started, 4: all done), timers the setTimeout waits of the preload in the
\* order in which they fire, pending the preload promises not settled yet, failed
\* the list failedImages, retry the 2 s timer of retryFailedImages, errors the
\* image errors so far
NoPreload ==
  [initial |-> 0, timers |-> <<>>, pending |-> 0, failed |-> <<>>, retry |-> FALSE,
   errors |-> 0]

\* the fields the constructor of MRIViewer sets; no canvas has the focus
NewViewer ==
  [currentSlices |-> [v \in {"sagittal", "axial", "coronal"} |-> 0],
   focusedViewport |-> "null",
   mriData |-> [v \in {"sagittal", "axial", "coronal"} |-> 0],
   imageCache |-> [v \in {"sagittal", "axial", "coronal"} |-> {}],
   imageCounters |-> [v \in {"sagittal", "axial", "coronal"} |-> [total |-> 0, loaded |-> 0]],
   canvas |-> [v \in {"sagittal", "axial", "coronal"} |-> Blank],
   imageLoads |-> <<>>,
   preload |-> NoPreload]

\* the viewer's fields are those of V
ViewerIs(V) ==
  /\ viewerSlices = V.currentSlices
  /\ focusedViewport = V.focusedViewport
  /\ mriData = V.mriData
  /\ imageCache = V.imageCache
  /\ imageCounters = V.imageCounters
  /\ canvas = V.canvas
  /\ imageLoads = V.imageLoads
  /\ preload = V.preload

\* new MRIViewer()
ViewerConstructor == ViewerIs(NewViewer)

\* no input counted, no point chosen
NoPoint ==
  /\ inputs = 0
  /\ point = [entry |-> "none", x |-> 0, y |-> 0]
  /\ selected = <<>>

\* new MRIImageCache(), and the bookkeeping of the model at its start
CacheConstructor ==
  /\ cache = EmptyMap
  /\ loadingPromises = EmptyMap
  /\ isPreloading = FALSE
  /\ loadingCount = 0
  /\ cacheStats = ZeroStats
  /\ failedUrls = {}
  /\ retryDelays = EmptyMap
  /\ loads = <<>>
  /\ calls = <<>>
  /\ passes = <<>>
  /\ restarts = 0
  /\ events = 0
  /\ queue = <<>>
  /\ clearedUrls = {}
  /\ nfail = 0
  /\ late = {}

Init ==
  /\ ManagerConstructor(TestTotalSlices)
  /\ CacheConstructor
  /\ ViewerConstructor
  /\ NoPoint

\* ------------------------------------------------------------ promises
NoResult == <<>>
\* URL.createObjectURL(blob): a fresh URL for every blob, here named after the load
ObjectUrl(l) == <<"blob", l>>

Settled(pc) == pc \in {"resolved", "rejected"}

\* A load's promise settles: the continuations of the getImage calls that await it
\* are queued in the order in which they began to wait.
SettleLoad(S, l, pc, err) ==
  LET w == S.loads[l].waiters
  IN [S EXCEPT !.loads[l].pc = pc,
               !.loads[l].err = err,
               !.loads[l].waiters = <<>>,
               !.queue = @ \o [i \in 1 .. Len(w) |-> <<"call", w[i]>>]]

\* await promise: on a settled promise the continuation is queued at once.
Await(S, c, l) ==
  IF Settled(S.loads[l].pc)
    THEN [S EXCEPT !.queue = Append(@, <<"call", c>>)]
    ELSE [S EXCEPT !.loads[l].waiters = Append(@, c)]

\* getImage's promise settles; a preload task awaiting it is resumed.
SettleCall(S, c, pc, result, err) ==
  LET S1 == [S EXCEPT !.calls[c].pc = pc, !.calls[c].result = result, !.calls[c].err = err]
  IN IF S.calls[c].pass = 0 THEN S1 ELSE [S1 EXCEPT !.queue = Append(@, <<"task", c>>)]

\* ----------------------------------------------------------- loadImage
\* fetch(url) is issued and raced against the timeout
StartFetch(S, l) ==
  [S EXCEPT !.loads[l].pc = "fetch", !.loads[l].attempts = @ + 1]

\* a loadImage that does not look at failedUrls
EnterLoadImage_NoBlacklist(S, l) ==
  LET url == S.loads[l].url
      S1 == [S EXCEPT !.loadingCount = @ + 1]
  IN IF RetryKey(url) \in DOMAIN S1.retryDelays
       THEN [S1 EXCEPT !.loads[l].pc = "delay"]
       ELSE StartFetch(S1, l)

\* a loadImage whose early throw for a blacklisted URL leaves loadingCount raised
EnterLoadImage_KeepsCount(S, l) ==
  LET url == S.loads[l].url
      S1 == [S EXCEPT !.loadingCount = @ + 1]
  IN IF url \in S1.failedUrls
       THEN SettleLoad(S1, l, "rejected", "permanent")
       ELSE IF RetryKey(url) \in DOMAIN S1.retryDelays
              THEN [S1 EXCEPT !.loads[l].pc = "delay"]
              ELSE StartFetch(S1, l)

\* loadImage from its entry to its first await (one invocation of the retry chain)
EnterLoadImage(S, l) ==
  LET url == S.loads[l].url
      S1 == [S EXCEPT !.loadingCount = @ + 1]
  IN IF url \in S1.failedUrls
       THEN SettleLoad([S1 EXCEPT !.loadingCount = @ - 1], l, "rejected", "permanent")
       ELSE IF RetryKey(url) \in DOMAIN S1.retryDelays
              THEN [S1 EXCEPT !.loads[l].pc = "delay"]
              ELSE StartFetch(S1, l)

\* Math.min(Math.pow(2, 3 - retries) * 1000 + jitter, 8000)
BackoffDelay(retries, jitter) == Min(Pow2(3 - retries) * 1000 + jitter, 8000)

\* a catch block that retries once more than allowed
RetriesLeft_OneMore(retries) == retries >= 0

\* a catch block that gives up one attempt early
RetriesLeft_OneLess(retries) == retries > 1

\* retries > 0 in the catch block
RetriesLeft(retries) == retries > 0

\* a catch block that forgets the stored delay when it gives up
CatchAttempt_DropsDelay(S, l, jitter, reason) ==
  LET ld == S.loads[l]
  IN IF RetriesLeft(ld.retries)
       THEN [S EXCEPT !.retryDelays = MapSet(@, RetryKey(ld.url), BackoffDelay(ld.retries, jitter)),
                      !.loads[l].pc = "backoff"]
       ELSE SettleLoad([S EXCEPT !.failedUrls = @ \cup {ld.url},
                                 !.retryDelays = MapDelete(@, RetryKey(ld.url)),
                                 !.cacheStats.failed = @ + 1,
                                 !.loadingCount = @ - 1],
                       l, "rejected", reason)

\* the catch block of loadImage, up to its await or its throw (with finally)
CatchAttempt(S, l, jitter, reason) ==
  LET ld == S.loads[l]
  IN IF RetriesLeft(ld.retries)
       THEN [S EXCEPT !.retryDelays = MapSet(@, RetryKey(ld.url), BackoffDelay(ld.retries, jitter)),
                      !.loads[l].pc = "backoff"]
       ELSE SettleLoad([S EXCEPT !.failedUrls = @ \cup {ld.url},
                                 !.cacheStats.failed = @ + 1,
                                 !.loadingCount = @ - 1],
                       l, "rejected", reason)

\* the response is ok and its blob is an image: object URL, delay cleared, finally
AttemptSucceeds(S, l) ==
  SettleLoad([S EXCEPT !.retryDelays = MapDelete(@, RetryKey(S.loads[l].url)),
                       !.loadingCount = @ - 1],
             l, "resolved", "none")

\* after the backoff wait: return this.loadImage(url, cacheKey, retries - 1), then finally
RetryLoadImage(S, l) ==
  LET S1 == EnterLoadImage([S EXCEPT !.loads[l].retries = @ - 1], l)
  IN [S1 EXCEPT !.loadingCount = @ - 1]

\* ------------------------------------------------------------ getImage
NewLoad(key, url) ==
  [key |-> key, url |-> url, retries |-> Retries, pc |-> "new", attempts |-> 0,
   err |-> "none", waiters |-> <<>>, cleared |-> FALSE]

NewCall(key, url, pass) ==
  [key |-> key, url |-> url, pass |-> pass, pc |-> "new", load |-> 0,
   result |-> NoResult, err |-> "none"]

\* misses++, loadImage(imageUrl, cacheKey, 2), loadingPromises.set, await loadPromise
StartLoad(S, c) ==
  LET l == Len(S.loads) + 1
      key == S.calls[c].key
      S1 == [S EXCEPT !.cacheStats.misses = @ + 1,
                      !.loads = Append(@, NewLoad(key, S.calls[c].url))]
      S2 == EnterLoadImage(S1, l)
      S3 == [S2 EXCEPT !.loadingPromises = MapSet(@, key, l),
                       !.calls[c].pc = "loading",
                       !.calls[c].load = l]
  IN Await(S3, c, l)

\* getImage from its entry to its first await or its return
GetImageBody(S, c) ==
  LET key == S.calls[c].key
  IN IF key \in DOMAIN S.cache
       THEN SettleCall([S EXCEPT !.cacheStats.hits = @ + 1], c, "resolved", S.cache[key], "none")
       ELSE IF key \in DOMAIN S.loadingPromises
              THEN Await([S EXCEPT !.calls[c].pc = "attached",
                                   !.calls[c].load = S.loadingPromises[key]],
                         c, S.loadingPromises[key])
              ELSE StartLoad(S, c)

\* the same, with the history of clearFailedUrls kept: this URL has been requested
GetImage(S, c) ==
  GetImageBody([S EXCEPT !.clearedUrls = @ \ {S.calls[c].url}], c)

\* getImage resumed after the promise it awaits has settled
ResumeGetImage(S, c) ==
  LET key == S.calls[c].key
      l == S.calls[c].load
      ok == S.loads[l].pc = "resolved"
  IN IF S.calls[c].pc = "attached"
       THEN IF ok
              THEN SettleCall(S, c, "resolved", ObjectUrl(l), "none")
              ELSE StartLoad([S EXCEPT !.loadingPromises = MapDelete(@, key)], c)
       ELSE IF ok
              THEN SettleCall([S EXCEPT !.cache = MapSet(@, key, ObjectUrl(l)),
                                        !.loadingPromises = MapDelete(@, key)],
                              c, "resolved", ObjectUrl(l), "none")
              ELSE SettleCall([S EXCEPT !.cacheStats.failed = @ + 1,
                                        !.loadingPromises = MapDelete(@, key)],
                              c, "rejected", NoResult, S.loads[l].err)

\* ------------------------------------------------------- preload passes
\* the tasks of one view in preloadPrioritySlices: slice < realMRIImages[viewport].length
PriorityOfView(v, prio) ==
  LET sel == SelectSeq(prio, LAMBDA s : s < Len(realMRIImages[v]))
  IN [i \in 1 .. Len(sel) |-> CacheKey(v, sel[i])]

\* a second phase that starts at slice 1
RemainingOfView_FromOne(v, prio) ==
  LET all == [i \in 1 .. Len(realMRIImages[v]) - 1 |-> i]
      sel == SelectSeq(all, LAMBDA s : ~Includes(prio, s))
  IN [i \in 1 .. Len(sel) |-> CacheKey(v, sel[i])]

\* the tasks of one view in preloadRemainingSlices: !prioritySlices.includes(slice)
RemainingOfView(v, prio) ==
  LET all == [i \in 1 .. Len(realMRIImages[v]) |-> i - 1]
      sel == SelectSeq(all, LAMBDA s : ~Includes(prio, s))
  IN [i \in 1 .. Len(sel) |-> CacheKey(v, sel[i])]

PriorityTasks(prio) ==
  PriorityOfView(ViewportOrder[1], prio) \o PriorityOfView(ViewportOrder[2], prio)
    \o PriorityOfView(ViewportOrder[3], prio)

RemainingTasks(prio) ==
  RemainingOfView(ViewportOrder[1], prio) \o RemainingOfView(ViewportOrder[2], prio)
    \o RemainingOfView(ViewportOrder[3], prio)

\* the task list of the phase a pass is in
TasksOf(pass) ==
  IF pass.phase = 1 THEN PriorityTasks(pass.prio) ELSE RemainingTasks(pass.prio)

NewPass(prio) ==
  [prio |-> prio, phase |-> 1, i |-> 0, pending |-> 0, completed |-> 0, failed |-> 0,
   skipped |-> 0, delay |-> 0, pc |-> "batch"]

\* one task of a batch, from its entry to its return or to its await of getImage
RunTask(S, p, key) ==
  IF key \in DOMAIN S.cache
    THEN [S EXCEPT !.passes[p].skipped = @ + 1]
    ELSE IF UrlOf(key) \in S.failedUrls
           THEN [S EXCEPT !.passes[p].skipped = @ + 1]
           ELSE LET S1 == [S EXCEPT !.passes[p].pending = @ + 1,
                                    !.calls = Append(@, NewCall(key, UrlOf(key), p))]
                IN GetImage(S1, Len(S1.calls))

\* batch.map(async (task) => ...): the tasks start one after the other, each on
\* the state its predecessor has left (T, bound so that it is computed once)
RECURSIVE RunTasks(_, _, _)
RunTasks(S, p, tasks) ==
  IF tasks = <<>>
    THEN S
    ELSE CHOOSE R \in {RunTasks(T, p, Tail(tasks)) : T \in {RunTask(S, p, Head(tasks))}} : TRUE

\* a batch that does not wait for its tasks to settle
StartBatch_NoAwait(S, p) ==
  LET pass == S.passes[p]
      tasks == TasksOf(pass)
      batch == SubSeq(tasks, pass.i + 1, Min(pass.i + maxConcurrentLoads, Len(tasks)))
      S1 == RunTasks([S EXCEPT !.passes[p].pc = "batch", !.passes[p].pending = 0], p, batch)
  IN [S1 EXCEPT !.queue = Append(@, <<"batch", p>>)]

\* tasks.slice(i, i + batchSize), the tasks started, await Promise.allSettled
StartBatch(S, p) ==
  LET pass == S.passes[p]
      tasks == TasksOf(pass)
      batch == SubSeq(tasks, pass.i + 1, Min(pass.i + maxConcurrentLoads, Len(tasks)))
      S1 == RunTasks([S EXCEPT !.passes[p].pc = "batch", !.passes[p].pending = 0], p, batch)
  IN IF S1.passes[p].pending = 0
       THEN [S1 EXCEPT !.queue = Append(@, <<"batch", p>>)]
       ELSE S1

\* processBatch from its entry: the first batch, or no task at all and the return
EnterProcessBatch(S, p) ==
  IF TasksOf(S.passes[p]) # <<>>
    THEN StartBatch(S, p)
    ELSE [S EXCEPT !.passes[p].pc = "phase", !.queue = Append(@, <<"phase", p>>)]

\* a delay whose upper threshold is reached at a ratio of 0.3 already
BatchDelay_From03(completed, failed, skipped) ==
  LET total == completed + failed + skipped
  IN IF 10 * failed >= 3 * total THEN 500 ELSE IF 10 * failed > total THEN 200 ELSE 100

\* failureRate > 0.3 ? 500 : (failureRate > 0.1 ? 200 : 100),
\* failureRate = failed / (completed + failed + skipped): the quotient of two
\* integers is rounded to the nearest double, which for a ratio of exactly 1/10 or
\* 3/10 is the double the literal 0.1 or 0.3 denotes, so that the comparisons are
\* those of the exact ratios; 0 / 0 is NaN, greater than nothing
BatchDelay(completed, failed, skipped) ==
  LET total == completed + failed + skipped
  IN IF 10 * failed > 3 * total THEN 500 ELSE IF 10 * failed > total THEN 200 ELSE 100

\* a processBatch that gives up the phase once a task has failed
ResumeProcessBatch_StopsOnFailure(S, p) ==
  LET pass == S.passes[p]
  IN IF pass.i + maxConcurrentLoads < Len(TasksOf(pass)) /\ pass.failed = 0
       THEN [S EXCEPT !.passes[p].pc = "pause",
                      !.passes[p].delay = BatchDelay(pass.completed, pass.failed, pass.skipped)]
       ELSE [S EXCEPT !.passes[p].pc = "phase",
                      !.passes[p].i = @ + maxConcurrentLoads,
                      !.queue = Append(@, <<"phase", p>>)]

\* processBatch resumed after Promise.allSettled
ResumeProcessBatch(S, p) ==
  LET pass == S.passes[p]
  IN IF pass.i + maxConcurrentLoads < Len(TasksOf(pass))
       THEN [S EXCEPT !.passes[p].pc = "pause",
                      !.passes[p].delay = BatchDelay(pass.completed, pass.failed, pass.skipped)]
       ELSE [S EXCEPT !.passes[p].pc = "phase",
                      !.passes[p].i = @ + maxConcurrentLoads,
                      !.queue = Append(@, <<"phase", p>>)]

\* a batch task that never settles once its getImage has failed
ResumeTask_FailureHangs(S, c) ==
  LET p == S.calls[c].pass
      S1 == [S EXCEPT !.cacheStats.preloaded = @ + 1, !.passes[p].completed = @ + 1]
      S2 == [S1 EXCEPT !.passes[p].pending = @ - 1]
  IN IF S.calls[c].pc # "resolved"
       THEN S
       ELSE IF S2.passes[p].pending = 0
              THEN [S2 EXCEPT !.queue = Append(@, <<"batch", p>>)]
              ELSE S2

\* the task of a batch resumed after its getImage has settled
ResumeTask(S, c) ==
  LET p == S.calls[c].pass
      S1 == IF S.calls[c].pc = "resolved"
              THEN [S EXCEPT !.cacheStats.preloaded = @ + 1, !.passes[p].completed = @ + 1]
              ELSE [S EXCEPT !.passes[p].failed = @ + 1]
      S2 == [S1 EXCEPT !.passes[p].pending = @ - 1]
  IN IF S2.passes[p].pending = 0
       THEN [S2 EXCEPT !.queue = Append(@, <<"batch", p>>)]
       ELSE S2

\* preloadImages resumed after a phase: the second phase, or the finally block
ResumePreloadImages(S, p) ==
  IF S.passes[p].phase = 1
    THEN EnterProcessBatch([S EXCEPT !.passes[p].phase = 2,
                                     !.passes[p].i = 0,
                                     !.passes[p].completed = 0,
                                     !.passes[p].failed = 0,
                                     !.passes[p].skipped = 0], p)
    ELSE [S EXCEPT !.passes[p].pc = "done", !.isPreloading = FALSE]

\* preloadImages from its entry to its first await
PreloadImagesCall(S, prio) ==
  IF S.isPreloading
    THEN S
    ELSE LET S1 == [S EXCEPT !.isPreloading = TRUE, !.passes = Append(@, NewPass(prio))]
         IN EnterProcessBatch(S1, Len(S1.passes))

\* --------------------------------------------------------------- tasks
\* A task of the event loop runs only when the microtask queue is empty.
Idle == queue = <<>>

\* a call from outside the cache: a task of its own
External(S) == [S EXCEPT !.events = @ + 1]
CanCall(budget) == Idle /\ events < budget
\* a call of preloadImages that would start a pass needs room for one
CanPreload(maxPasses) == isPreloading \/ Len(passes) < maxPasses

LoadIds == 1 .. Len(loads)
PassIds == 1 .. Len(passes)
CallIds == 1 .. Len(calls)
ExternalCalls == {c \in CallIds : calls[c].pass = 0}

\* imageCache.getImage(viewport, sliceNumber, realMRIImages[viewport][sliceNumber])
CallGetImage(key, budget) ==
  /\ CanCall(budget)
  /\ LET S1 == [External(Cur) EXCEPT !.calls = Append(@, NewCall(key, UrlOf(key), 0))]
     IN Commit(GetImage(S1, Len(S1.calls)))

\* the fetch answers with an ok response whose blob is an image
FetchSucceeds(l) ==
  /\ Idle
  /\ loads[l].pc = "fetch"
  /\ Commit(AttemptSucceeds(Cur, l))

\* the fetch answers with a non-2xx status or with a blob that is no image
FetchFails(l, budget) ==
  /\ Idle
  /\ loads[l].pc = "fetch"
  /\ nfail < budget
  /\ \E jitter \in Jitters, reason \in {"http", "type"} :
       Commit(CatchAttempt([Cur EXCEPT !.nfail = @ + 1], l, jitter, reason))

\* the timeout of the attempt fires before the fetch answers
\* (follow: whether the fetch left behind is kept track of until it answers)
TimeoutFires(l, budget, follow) ==
  /\ Idle
  /\ loads[l].pc = "fetch"
  /\ nfail < budget
  /\ \E jitter \in Jitters :
       Commit(CatchAttempt([Cur EXCEPT !.nfail = @ + 1,
                                       !.late = IF follow
                                                  THEN @ \cup {<<l, loads[l].attempts>>}
                                                  ELSE @],
                           l, jitter, "timeout"))

\* a late answer that is taken for the answer of the attempt
LateAnswer_Settles(S, f) ==
  AttemptSucceeds([S EXCEPT !.late = @ \ {f}], f[1])

\* the fetch of a timed-out attempt answers: Promise.race has settled, nothing reacts
LateAnswer(S, f) ==
  [S EXCEPT !.late = @ \ {f}]

LateCompletion(f) ==
  /\ Idle
  /\ f \in late
  /\ Commit(LateAnswer(Cur, f))

\* the backoff wait of the catch block is over
BackoffFires(l) ==
  /\ Idle
  /\ loads[l].pc = "backoff"
  /\ Commit(RetryLoadImage(Cur, l))

\* the wait for the stored retry delay is over: the fetch is issued
DelayFires(l) ==
  /\ Idle
  /\ loads[l].pc = "delay"
  /\ Commit(StartFetch(Cur, l))

\* imageCache.preloadImages(realMRIImages, prioritySlices)
CallPreloadImages(prio, budget, maxPasses) ==
  /\ CanCall(budget)
  /\ CanPreload(maxPasses)
  /\ Commit(PreloadImagesCall(External(Cur), prio))

\* restartPreloading up to its await of the 1 s timer
RestartPreloadingCall(S) ==
  [S EXCEPT !.isPreloading = FALSE, !.loadingPromises = EmptyMap, !.restarts = @ + 1]

CallRestartPreloading(budget) ==
  /\ CanCall(budget)
  /\ Commit(RestartPreloadingCall(External(Cur)))

\* restartPreloading resumed: await this.preloadImages(realMRIImages)
RestartFires(maxPasses) ==
  /\ Idle
  /\ restarts > 0
  /\ CanPreload(maxPasses)
  /\ Commit(PreloadImagesCall([Cur EXCEPT !.restarts = @ - 1], DefaultPrioritySlices))

\* the pause between two batches is over: the next batch starts
PauseFires(p) ==
  /\ Idle
  /\ passes[p].pc = "pause"
  /\ Commit(StartBatch([Cur EXCEPT !.passes[p].i = @ + maxConcurrentLoads], p))

\* history: the loads that are in progress when clearCache runs are marked
MarkCleared(lds) ==
  [l \in DOMAIN lds |-> IF Settled(lds[l].pc) THEN lds[l] ELSE [lds[l] EXCEPT !.cleared = TRUE]]

\* a clearCache that forgets the retry-delay table
ClearCacheCall_KeepsDelays(S) ==
  [S EXCEPT !.cache = EmptyMap,
            !.loads = MarkCleared(@),
            !.loadingPromises = EmptyMap,
            !.failedUrls = {},
            !.cacheStats = ZeroStats]

\* cache.clear(), loadingPromises.clear(), failedUrls.clear(), retryDelays.clear(), stats reset
ClearCacheCall(S) ==
  [S EXCEPT !.cache = EmptyMap,
            !.loads = MarkCleared(@),
            !.loadingPromises = EmptyMap,
            !.failedUrls = {},
            !.retryDelays = EmptyMap,
            !.cacheStats = ZeroStats]

ClearCache(budget) ==
  /\ CanCall(budget)
  /\ Commit(ClearCacheCall(External(Cur)))

\* a clearFailedUrls that also drops the cached entries
ClearFailedUrlsCall_DropsCache(S) ==
  [S EXCEPT !.failedUrls = {}, !.retryDelays = EmptyMap, !.cache = EmptyMap,
            !.clearedUrls = @ \cup S.failedUrls]

\* a clearFailedUrls that also resets the statistics
ClearFailedUrlsCall_ResetsStats(S) ==
  [S EXCEPT !.failedUrls = {}, !.retryDelays = EmptyMap, !.cacheStats = ZeroStats,
            !.clearedUrls = @ \cup S.failedUrls]

\* failedUrls.clear(), retryDelays.clear()
ClearFailedUrlsCall(S) ==
  [S EXCEPT !.failedUrls = {}, !.retryDelays = EmptyMap,
            !.clearedUrls = @ \cup S.failedUrls]

ClearFailedUrls(budget) ==
  /\ CanCall(budget)
  /\ Commit(ClearFailedUrlsCall(External(Cur)))

\* ---------------------------------------------------------- microtasks
RunGetImage ==
  /\ queue # <<>>
  /\ Head(queue)[1] = "call"
  /\ Commit(ResumeGetImage([Cur EXCEPT !.queue = Tail(@)], Head(queue)[2]))

RunTaskEnd ==
  /\ queue # <<>>
  /\ Head(queue)[1] = "task"
  /\ Commit(ResumeTask([Cur EXCEPT !.queue = Tail(@)], Head(queue)[2]))

RunProcessBatch ==
  /\ queue # <<>>
  /\ Head(queue)[1] = "batch"
  /\ Commit(ResumeProcessBatch([Cur EXCEPT !.queue = Tail(@)], Head(queue)[2]))

RunPreloadImages ==
  /\ queue # <<>>
  /\ Head(queue)[1] = "phase"
  /\ Commit(ResumePreloadImages([Cur EXCEPT !.queue = Tail(@)], Head(queue)[2]))

Next ==
  \/ \E key \in Keys : CallGetImage(key, MaxEvents)
  \/ \E l \in LoadIds : FetchSucceeds(l)
  \/ \E l \in LoadIds : FetchFails(l, MaxFailures)
  \/ \E l \in LoadIds : TimeoutFires(l, MaxFailures, FALSE)
  \/ \E l \in LoadIds : BackoffFires(l)
  \/ \E l \in LoadIds : DelayFires(l)
  \/ \E prio \in PriorityInputs : CallPreloadImages(prio, MaxEvents, MaxPasses)
  \/ CallRestartPreloading(MaxEvents)
  \/ RestartFires(MaxPasses)
  \/ \E p \in PassIds : PauseFires(p)
  \/ ClearCache(MaxEvents)
  \/ ClearFailedUrls(MaxEvents)
  \/ RunGetImage
  \/ RunTaskEnd
  \/ RunProcessBatch
  \/ RunPreloadImages

Spec == Init /\ [][Next]_vars

\* The cache used by direct calls alone (no preload pass): more calls fit the bound.
DirectKeys == {CacheKey("axial", 0)}

NextDirect ==
  \/ \E key \in DirectKeys : CallGetImage(key, MaxDirect)
  \/ \E l \in LoadIds : FetchSucceeds(l)
  \/ \E l \in LoadIds : FetchFails(l, MaxDirectFailures)
  \/ \E l \in LoadIds : TimeoutFires(l, MaxDirectFailures, FALSE)
  \/ \E l \in LoadIds : BackoffFires(l)
  \/ \E l \in LoadIds : DelayFires(l)
  \/ ClearCache(MaxDirect)
  \/ ClearFailedUrls(MaxDirect)
  \/ RunGetImage

SpecDirect == Init /\ [][NextDirect]_vars

\* The cache used by direct calls, the fetches that outlive their timeout followed
\* until they answer.
NextLate ==
  \/ \E key \in DirectKeys : CallGetImage(key, MaxDirect)
  \/ \E l \in LoadIds : FetchSucceeds(l)
  \/ \E l \in LoadIds : TimeoutFires(l, MaxDirectFailures, TRUE)
  \/ \E f \in late : LateCompletion(f)
  \/ \E l \in LoadIds : BackoffFires(l)
  \/ \E l \in LoadIds : DelayFires(l)
  \/ ClearCache(MaxDirect)
  \/ RunGetImage

SpecLate == Init /\ [][NextLate]_vars

\* The cache when every fetch succeeds: preload passes can overlap within the bound.
NextPreload ==
  \/ \E key \in Keys : CallGetImage(key, MaxPreloadEvents)
  \/ \E l \in LoadIds : FetchSucceeds(l)
  \/ \E prio \in PriorityInputs : CallPreloadImages(prio, MaxPreloadEvents, MaxOverlap)
  \/ CallRestartPreloading(MaxPreloadEvents)
  \/ RestartFires(MaxOverlap)
  \/ \E p \in PassIds : PauseFires(p)
  \/ RunGetImage
  \/ RunTaskEnd
  \/ RunProcessBatch
  \/ RunPreloadImages

SpecPreload == Init /\ [][NextPreload]_vars

\* The preload passes followed to their end. The event loop runs a queued microtask
\* and a timer that is due; every fetch answers or has its timeout fire.
NextLive ==
  \/ \E prio \in PriorityInputs : CallPreloadImages(prio, MaxLiveEvents, MaxLivePasses)
  \/ CallRestartPreloading(MaxLiveEvents)
  \/ ClearCache(MaxLiveEvents)
  \/ RestartFires(MaxLivePasses)
  \/ \E l \in LoadIds : FetchSucceeds(l)
  \/ \E l \in LoadIds : FetchFails(l, MaxLiveFailures)
  \/ \E l \in LoadIds : TimeoutFires(l, MaxLiveFailures, FALSE)
  \/ \E l \in LoadIds : BackoffFires(l)
  \/ \E l \in LoadIds : DelayFires(l)
  \/ \E p \in PassIds : PauseFires(p)
  \/ RunGetImage
  \/ RunTaskEnd
  \/ RunProcessBatch
  \/ RunPreloadImages

\* the microtask at the head of the queue
Microtask == RunGetImage \/ RunTaskEnd \/ RunProcessBatch \/ RunPreloadImages
\* a fetch in flight answers, or its timeout fires
FetchSettles ==
  \E l \in LoadIds :
    FetchSucceeds(l) \/ FetchFails(l, MaxLiveFailures) \/ TimeoutFires(l, MaxLiveFailures, FALSE)
\* a setTimeout timer that is due
TimerFires ==
  \/ \E l \in LoadIds : BackoffFires(l) \/ DelayFires(l)
  \/ \E p \in PassIds : PauseFires(p)
  \/ RestartFires(MaxLivePasses)

SpecLive ==
  /\ Init
  /\ [][NextLive]_vars
  /\ WF_vars(Microtask)
  /\ WF_vars(FetchSettles)
  /\ WF_vars(TimerFires)

\* ------------------------------------------------- MRIViewportManager
Views == {"axial", "sagittal", "coronal"}

\* A JavaScript number that is not a number; the slices are integers otherwise.
NaN == -1000000

\* Math.min, Math.max: NaN if an argument is NaN
JsMin(a, b) == IF a = NaN \/ b = NaN THEN NaN ELSE IF a < b THEN a ELSE b
JsMax(a, b) == IF a = NaN \/ b = NaN THEN NaN ELSE IF a > b THEN a ELSE b
\* Math.sign
JsSign(d) == IF d = NaN THEN NaN ELSE IF d > 0 THEN 1 ELSE IF d < 0 THEN -1 ELSE 0
\* +
JsAdd(a, b) == IF a = NaN \/ b = NaN THEN NaN ELSE a + b
\* !== on numbers: NaN differs from everything, itself included
StrictNotEqual(a, b) == a = NaN \/ b = NaN \/ a # b

\* The manager's fields that its synchronous code writes, as one record.
MCur ==
  [currentSlices |-> currentSlices, sliceupdates |-> sliceupdates, rejected |-> rejected]

MWrite(M) ==
  /\ currentSlices' = M.currentSlices
  /\ sliceupdates' = M.sliceupdates
  /\ rejected' = M.rejected
  /\ UNCHANGED <<totalSlices, correlationData, coefficientKeys>>
  /\ UNCHANGED cacheVars
  /\ UNCHANGED viewerVars
  /\ UNCHANGED formulaVars

MCommit(M) == MWrite(M) /\ UNCHANGED inputs

\* a dispatch whose snapshot is the slices the call started with
DispatchUpdateEvent_StaleSnapshot(M, viewport, sliceNumber) ==
  [M EXCEPT !.sliceupdates =
     Append(@, [viewport |-> viewport, sliceNumber |-> sliceNumber,
                currentSlices |-> currentSlices])]

\* document.dispatchEvent(new CustomEvent('sliceupdate', {detail: {viewport,
\* sliceNumber, currentSlices: {...this.currentSlices}}}))
DispatchUpdateEvent(M, viewport, sliceNumber) ==
  [M EXCEPT !.sliceupdates =
     Append(@, [viewport |-> viewport, sliceNumber |-> sliceNumber,
                currentSlices |-> M.currentSlices])]

\* a clamp without its lower end
ClampSlice_NoLower(viewport, sliceNumber) ==
  JsMin(sliceNumber, totalSlices[viewport] - 1)

\* Math.max(0, Math.min(sliceNumber, maxSlice)), maxSlice = totalSlices[viewport] - 1
ClampSlice(viewport, sliceNumber) ==
  JsMax(0, JsMin(sliceNumber, totalSlices[viewport] - 1))

\* a setCurrentSlice that dispatches whatever suppressEvent says
SetCurrentSlice_IgnoresSuppress(M, viewport, sliceNumber, suppressEvent) ==
  LET clampedSliceNumber == ClampSlice(viewport, sliceNumber)
  IN IF StrictNotEqual(M.currentSlices[viewport], clampedSliceNumber)
       THEN DispatchUpdateEvent([M EXCEPT !.currentSlices[viewport] = clampedSliceNumber],
                                viewport, clampedSliceNumber)
       ELSE M

SetCurrentSlice(M, viewport, sliceNumber, suppressEvent) ==
  LET clampedSliceNumber == ClampSlice(viewport, sliceNumber)
  IN IF StrictNotEqual(M.currentSlices[viewport], clampedSliceNumber)
       THEN LET M1 == [M EXCEPT !.currentSlices[viewport] = clampedSliceNumber]
            IN IF ~suppressEvent
                 THEN DispatchUpdateEvent(M1, viewport, clampedSliceNumber)
                 ELSE M1
       ELSE M

\* delta = Math.sign(event.deltaY); setCurrentSlice(viewport, currentSlice + delta)
HandleScroll(M, viewport, deltaY) ==
  SetCurrentSlice(M, viewport, JsAdd(M.currentSlices[viewport], JsSign(deltaY)), FALSE)

\* The coefficient table, in hundredths.
Coefficients ==
  [axial_to_sagittal |-> [a |-> -1168, b |-> 1922, c |-> -408],
   coronal_to_sagittal |-> [a |-> -126, b |-> 2588, c |-> 301],
   sagittal_to_axial |-> [a |-> -3071, b |-> -67, c |-> -2641],
   coronal_to_axial |-> [a |-> -3474, b |-> 0, c |-> -2948],
   sagittal_to_coronal |-> [a |-> 0, b |-> 2429, c |-> 171],
   axial_to_coronal |-> [a |-> -2550, b |-> -1381, c |-> -3049]]

minSlice == 0
maxSlice == 20

\* n / d of two integers as a double: finite, NaN (0 / 0) or an infinity (n / 0)
QuotientClass(n, d) ==
  IF d # 0 THEN "fin" ELSE IF n = 0 THEN "nan" ELSE IF n > 0 THEN "pinf" ELSE "ninf"

\* k * q for a finite k: 0 * Infinity is NaN
TimesClass(k, q) ==
  IF q = "fin" THEN "fin"
  ELSE IF q = "nan" \/ k = 0 THEN "nan"
  ELSE IF k > 0 THEN q
  ELSE IF q = "pinf" THEN "ninf" ELSE "pinf"

\* p + q: Infinity - Infinity is NaN
PlusClass(p, q) ==
  IF p = "nan" \/ q = "nan" \/ {p, q} = {"pinf", "ninf"} THEN "nan"
  ELSE IF p # "fin" THEN p ELSE q

\* calculateSlice(coeff, xNormalized, yNormalized) with xNormalized = x / renderedWidth
\* and yNormalized = (renderedHeight - y) / renderedHeight:
\* Math.max(minSlice, Math.min(maxSlice, Math.round(a * x + b * y + c)))
CalculateSlice(coeff, x, y, renderedWidth, renderedHeight) ==
  LET raw == PlusClass(TimesClass(coeff.a, QuotientClass(x, renderedWidth)),
                       TimesClass(coeff.b, QuotientClass(renderedHeight - y, renderedHeight)))
      n == coeff.a * x * renderedHeight + coeff.b * (renderedHeight - y) * renderedWidth
             + coeff.c * renderedWidth * renderedHeight
      d == 100 * renderedWidth * renderedHeight
  IN IF raw = "nan" THEN NaN
     ELSE IF raw = "pinf" THEN maxSlice
     ELSE IF raw = "ninf" THEN minSlice
     ELSE JsMax(minSlice, JsMin(maxSlice, (2 * n + d) \div (2 * d)))

\* the two sibling views a click in a view sets, in the order of the code
Siblings(sourceViewport) ==
  CASE sourceViewport = "axial" -> <<"sagittal", "coronal">>
    [] sourceViewport = "sagittal" -> <<"axial", "coronal">>
    [] sourceViewport = "coronal" -> <<"axial", "sagittal">>

\* coefficients.<source>_to_<target>
CoefficientsOf(sourceViewport, target) ==
  CASE <<sourceViewport, target>> = <<"axial", "sagittal">> -> Coefficients.axial_to_sagittal
    [] <<sourceViewport, target>> = <<"axial", "coronal">> -> Coefficients.axial_to_coronal
    [] <<sourceViewport, target>> = <<"sagittal", "axial">> -> Coefficients.sagittal_to_axial
    [] <<sourceViewport, target>> = <<"sagittal", "coronal">> -> Coefficients.sagittal_to_coronal
    [] <<sourceViewport, target>> = <<"coronal", "axial">> -> Coefficients.coronal_to_axial
    [] <<sourceViewport, target>> = <<"coronal", "sagittal">> -> Coefficients.coronal_to_sagittal

\* the name of coefficients.<source>_to_<target>
EntryKey(sourceViewport, target) ==
  CASE <<sourceViewport, target>> = <<"axial", "sagittal">> -> "axial_to_sagittal"
    [] <<sourceViewport, target>> = <<"axial", "coronal">> -> "axial_to_coronal"
    [] <<sourceViewport, target>> = <<"sagittal", "axial">> -> "sagittal_to_axial"
    [] <<sourceViewport, target>> = <<"sagittal", "coronal">> -> "sagittal_to_coronal"
    [] <<sourceViewport, target>> = <<"coronal", "axial">> -> "coronal_to_axial"
    [] <<sourceViewport, target>> = <<"coronal", "sagittal">> -> "coronal_to_sagittal"

\* a click that stops after its first sibling
HandleViewportClick_FirstOnly(M, sourceViewport, x, y, renderedWidth, renderedHeight) ==
  IF correlationData # "table"
    THEN M
    ELSE LET first == Siblings(sourceViewport)[1]
             second == Siblings(sourceViewport)[2]
             newFirst == CalculateSlice(CoefficientsOf(sourceViewport, first),
                                        x, y, renderedWidth, renderedHeight)
         IN IF \/ EntryKey(sourceViewport, first) \notin coefficientKeys
               \/ EntryKey(sourceViewport, second) \notin coefficientKeys
              THEN [M EXCEPT !.rejected = TRUE]
              ELSE SetCurrentSlice(M, first, newFirst, FALSE)

\* a click without the guards on correlationData
HandleViewportClick_NoGuard(M, sourceViewport, x, y, renderedWidth, renderedHeight) ==
  LET first == Siblings(sourceViewport)[1]
      second == Siblings(sourceViewport)[2]
      newFirst == CalculateSlice(CoefficientsOf(sourceViewport, first),
                                 x, y, renderedWidth, renderedHeight)
      newSecond == CalculateSlice(CoefficientsOf(sourceViewport, second),
                                  x, y, renderedWidth, renderedHeight)
  IN IF \/ EntryKey(sourceViewport, first) \notin coefficientKeys
        \/ EntryKey(sourceViewport, second) \notin coefficientKeys
       THEN [M EXCEPT !.rejected = TRUE]
       ELSE SetCurrentSlice(SetCurrentSlice(M, first, newFirst, FALSE),
                            second, newSecond, FALSE)

\* a click that calculates each slice just before it writes it
HandleViewportClick_WritesBetween(M, sourceViewport, x, y, renderedWidth, renderedHeight) ==
  IF correlationData # "table"
    THEN M
    ELSE LET first == Siblings(sourceViewport)[1]
             second == Siblings(sourceViewport)[2]
             newFirst == CalculateSlice(CoefficientsOf(sourceViewport, first),
                                        x, y, renderedWidth, renderedHeight)
             newSecond == CalculateSlice(CoefficientsOf(sourceViewport, second),
                                         x, y, renderedWidth, renderedHeight)
             M1 == SetCurrentSlice(M, first, newFirst, FALSE)
         IN IF EntryKey(sourceViewport, first) \notin coefficientKeys
              THEN [M EXCEPT !.rejected = TRUE]
              ELSE IF EntryKey(sourceViewport, second) \notin coefficientKeys
                     THEN [M1 EXCEPT !.rejected = TRUE]
                     ELSE SetCurrentSlice(M1, second, newSecond, FALSE)

\* handleViewportClick: it has no await, so that it runs to its end at once. Both
\* slices are calculated before the first write; calculateSlice reads coeff.a and
\* throws a TypeError on an entry that the table does not have.
HandleViewportClick(M, sourceViewport, x, y, renderedWidth, renderedHeight) ==
  IF correlationData # "table"
    THEN M
    ELSE LET first == Siblings(sourceViewport)[1]
             second == Siblings(sourceViewport)[2]
             newFirst == CalculateSlice(CoefficientsOf(sourceViewport, first),
                                        x, y, renderedWidth, renderedHeight)
             newSecond == CalculateSlice(CoefficientsOf(sourceViewport, second),
                                         x, y, renderedWidth, renderedHeight)
         IN IF \/ EntryKey(sourceViewport, first) \notin coefficientKeys
               \/ EntryKey(sourceViewport, second) \notin coefficientKeys
              THEN [M EXCEPT !.rejected = TRUE]
              ELSE SetCurrentSlice(SetCurrentSlice(M, first, newFirst, FALSE),
                                   second, newSecond, FALSE)

\* the arguments the manager is called with
TotalSlicesInputs ==
  {[v \in Views |-> 1],
   [v \in Views |-> IF v = "axial" THEN 21 ELSE IF v = "sagittal" THEN 3 ELSE 1],
   [v \in Views |-> IF v = "axial" THEN 2 ELSE IF v = "sagittal" THEN 1 ELSE 21]}
SliceInputs == {-5, 1, 10, 999, NaN}
DeltaYs == {-100, 0, 100}
ClickXs == {0, 50}
ClickYs == {0, 70}
RenderedSizes == {0, 100}

\* the tables that are loaded: the whole table, and tables that lack one entry
TableInputs ==
  {DOMAIN Coefficients, DOMAIN Coefficients \ {"axial_to_coronal"}}

\* a call from outside starts with no event dispatched yet and has not thrown
Called == [MCur EXCEPT !.sliceupdates = <<>>, !.rejected = FALSE]

CallSetCurrentSlice(viewport, sliceNumber, suppressEvent) ==
  MCommit(SetCurrentSlice(Called, viewport, sliceNumber, suppressEvent))

CallHandleScroll(viewport, deltaY) ==
  MCommit(HandleScroll(Called, viewport, deltaY))

CallHandleViewportClick(sourceViewport, x, y, renderedWidth, renderedHeight) ==
  MCommit(HandleViewportClick(Called, sourceViewport, x, y, renderedWidth, renderedHeight))

\* loadCorrelationData has run: the table with the entries it holds, or {} when
\* the fetch failed; the catch keeps it from throwing
LoadCorrelationData(ok, keys) ==
  /\ correlationData' = IF ok THEN "table" ELSE "empty"
  /\ coefficientKeys' = IF ok THEN keys ELSE {}
  /\ sliceupdates' = <<>>
  /\ rejected' = FALSE
  /\ UNCHANGED <<totalSlices, currentSlices>>
  /\ UNCHANGED cacheVars
  /\ UNCHANGED viewerVars
  /\ UNCHANGED <<inputs, point, selected>>

InitManager ==
  /\ \E total \in TotalSlicesInputs : ManagerConstructor(total)
  /\ CacheConstructor
  /\ ViewerConstructor
  /\ NoPoint

NextManager ==
  \/ \E v \in Views, n \in SliceInputs, suppressEvent \in BOOLEAN :
       CallSetCurrentSlice(v, n, suppressEvent)
  \/ \E v \in Views, deltaY \in DeltaYs : CallHandleScroll(v, deltaY)
  \/ \E v \in Views, x \in ClickXs, y \in ClickYs, w \in RenderedSizes, h \in RenderedSizes :
       CallHandleViewportClick(v, x, y, w, h)
  \/ \E ok \in BOOLEAN, keys \in TableInputs : LoadCorrelationData(ok, keys)

SpecManager == InitManager /\ [][NextManager]_vars

\* ----------------------------------------------------------- MRIViewer
\* <canvas width="300" height="300">
CanvasSize == 300

\* The viewer's fields that its handlers write, as one record.
VCur ==
  [currentSlices |-> viewerSlices, focusedViewport |-> focusedViewport, mriData |-> mriData,
   imageCache |-> imageCache, imageCounters |-> imageCounters, canvas |-> canvas,
   imageLoads |-> imageLoads, preload |-> preload]

VWrite(V) ==
  /\ viewerSlices' = V.currentSlices
  /\ focusedViewport' = V.focusedViewport
  /\ mriData' = V.mriData
  /\ imageCache' = V.imageCache
  /\ imageCounters' = V.imageCounters
  /\ canvas' = V.canvas
  /\ imageLoads' = V.imageLoads
  /\ preload' = V.preload
  /\ UNCHANGED managerVars
  /\ UNCHANGED cacheVars
  /\ UNCHANGED formulaVars

\* a calculateSlice without the upper end of its clamp
ViewerCalculateSlice_NoUpperClamp(x, y, unit, coefficients) ==
  LET n == coefficients.a * y + coefficients.b * x - coefficients.c * unit
      d == 100 * unit
  IN IF n <= 0 THEN 0 ELSE (2 * n + d) \div (2 * d)

\* a calculateSlice that adds c
ViewerCalculateSlice_AddsC(x, y, unit, coefficients) ==
  LET n == coefficients.a * y + coefficients.b * x + coefficients.c * unit
      d == 100 * unit
  IN IF n <= 0 THEN 0
     ELSE IF n >= 20 * d THEN 20
     ELSE (2 * n + d) \div (2 * d)

\* a calculateSlice with the formula of the manager, a * x + b * y + c
ViewerCalculateSlice_ManagerConvention(x, y, unit, coefficients) ==
  LET n == coefficients.a * x + coefficients.b * y + coefficients.c * unit
      d == 100 * unit
  IN IF n <= 0 THEN 0
     ELSE IF n >= 20 * d THEN 20
     ELSE (2 * n + d) \div (2 * d)

\* calculateSlice(x, y, coefficients) for the point (x / unit, y / unit):
\* Math.round(Math.max(0, Math.min(20, a * y + b * x - c))), the coefficients in
\* hundredths; Math.round is the floor of its argument plus one half
ViewerCalculateSlice(x, y, unit, coefficients) ==
  LET n == coefficients.a * y + coefficients.b * x - coefficients.c * unit
      d == 100 * unit
  IN IF n <= 0 THEN 0
     ELSE IF n >= 20 * d THEN 20
     ELSE (2 * n + d) \div (2 * d)

\* new Image() with crossOrigin 'anonymous', its src set: by is the caller that
\* waits for it ("display", "initial", "preload" or "retry")
NewImage(viewport, sliceNumber, by) ==
  [viewport |-> viewport, slice |-> sliceNumber, by |-> by, pc |-> "cors"]

\* loadAndDisplaySlice from its entry to its await or its return: nothing without an
\* entry of the manifest, the cached image drawn, or else an image requested
LoadAndDisplaySlice(V, viewport, sliceNumber, by) ==
  IF sliceNumber \notin 0 .. V.mriData[viewport] - 1
    THEN V
    ELSE IF sliceNumber \in V.imageCache[viewport]
           THEN [V EXCEPT !.canvas[viewport] = sliceNumber]
           ELSE [V EXCEPT !.imageLoads = Append(@, NewImage(viewport, sliceNumber, by))]

\* updateSlice and updateSliceOnly: this.currentSlices[viewport] = sliceNumber, then
\* loadAndDisplaySlice(viewport, sliceNumber)
UpdateSlice(V, viewport, sliceNumber) ==
  LoadAndDisplaySlice([V EXCEPT !.currentSlices[viewport] = sliceNumber],
                      viewport, sliceNumber, "display")

\* the two views a click in a view of the viewer sets, in the order of the code
ViewerSiblings(sourceViewport) ==
  CASE sourceViewport = "sagittal" -> <<"axial", "coronal">>
    [] sourceViewport = "axial" -> <<"sagittal", "coronal">>
    [] sourceViewport = "coronal" -> <<"sagittal", "axial">>

\* a click that sets its first sibling only
CalculateCrossSectionalSlices_OneSibling(V, x, y, unit, sourceViewport) ==
  LET first == ViewerSiblings(sourceViewport)[1]
  IN UpdateSlice(V, first,
       ViewerCalculateSlice(x, y, unit, CoefficientsOf(sourceViewport, first)))

\* calculateCrossSectionalSlices(x, y, sourceViewport)
CalculateCrossSectionalSlices(V, x, y, unit, sourceViewport) ==
  LET first == ViewerSiblings(sourceViewport)[1]
      second == ViewerSiblings(sourceViewport)[2]
      V1 == UpdateSlice(V, first,
              ViewerCalculateSlice(x, y, unit, CoefficientsOf(sourceViewport, first)))
  IN UpdateSlice(V1, second,
       ViewerCalculateSlice(x, y, unit, CoefficientsOf(sourceViewport, second)))

\* handleCanvasClick: normalizedX = rawX / canvas.width, normalizedY = rawY / canvas.height
HandleCanvasClick(V, rawX, rawY, sourceViewport) ==
  CalculateCrossSectionalSlices(V, rawX, rawY, CanvasSize, sourceViewport)

\* a step of two slices
StepSlice_TwoSlices(V, viewport, direction) ==
  LET currentSlice == V.currentSlices[viewport]
      newSlice == JsMax(0, JsMin(20, currentSlice + 2 * direction))
  IN IF newSlice # currentSlice THEN UpdateSlice(V, viewport, newSlice) ELSE V

\* the step of handleCanvasScroll and handleKeyNavigation:
\* newSlice = Math.max(0, Math.min(20, currentSlice + direction)), written if it differs
StepSlice(V, viewport, direction) ==
  LET currentSlice == V.currentSlices[viewport]
      newSlice == JsMax(0, JsMin(20, currentSlice + direction))
  IN IF newSlice # currentSlice THEN UpdateSlice(V, viewport, newSlice) ELSE V

\* handleCanvasScroll: scrollDirection = event.deltaY > 0 ? 1 : -1
HandleCanvasScroll(V, deltaY, viewport) ==
  StepSlice(V, viewport, IF deltaY > 0 THEN 1 ELSE -1)

KeyInputs == {"ArrowUp", "ArrowLeft", "ArrowDown", "ArrowRight", "Enter"}

\* handleKeyNavigation
HandleKeyNavigation(V, key) ==
  IF V.focusedViewport = "null"
    THEN V
    ELSE IF key \in {"ArrowUp", "ArrowLeft"} THEN StepSlice(V, V.focusedViewport, -1)
    ELSE IF key \in {"ArrowDown", "ArrowRight"} THEN StepSlice(V, V.focusedViewport, 1)
    ELSE V

\* ------------------------------------------------ MRIViewer: the images
DropAt(seq, i) == SubSeq(seq, 1, i - 1) \o SubSeq(seq, i + 1, Len(seq))

InitialOrder == <<"sagittal", "axial", "coronal">>

\* preloadAllImages: for each view the slices 1 .. length - 1, in the order of the code
PreloadTasksOf(data, v) == [i \in 1 .. data[v] - 1 |-> <<v, i>>]

PreloadTasks(data) ==
  PreloadTasksOf(data, InitialOrder[1]) \o PreloadTasksOf(data, InitialOrder[2])
    \o PreloadTasksOf(data, InitialOrder[3])

\* delay = Math.floor(i / 5) * 100: the timers fire by delay, those of one delay in
\* the order in which they were set
RECURSIVE ByDelay(_, _, _)
ByDelay(tasks, d, last) ==
  IF d > last
    THEN <<>>
    ELSE SelectSeq(tasks, LAMBDA t : t[2] \div 5 = d) \o ByDelay(tasks, d + 1, last)

\* preloadAllImages up to await Promise.allSettled(promises)
PreloadAllImages(V) ==
  LET tasks == PreloadTasks(V.mriData)
  IN [V EXCEPT !.preload.timers = ByDelay(tasks, 0, Len(tasks) \div 5),
               !.preload.pending = Len(tasks)]

\* a promise of the preload settles; after the last one preloadAllImages resumes:
\* setTimeout(() => this.retryFailedImages(failedImages), 2000) if an image failed
SettlePreload(V) ==
  LET V1 == [V EXCEPT !.preload.pending = @ - 1]
  IN IF V1.preload.pending = 0 /\ V1.preload.failed # <<>>
       THEN [V1 EXCEPT !.preload.retry = TRUE]
       ELSE V1

\* preloadSingleImage(viewport, sliceNumber) up to its return: resolved at once if
\* the slice is cached, or else an image requested
PreloadSingleImage(V, viewport, sliceNumber, by) ==
  IF sliceNumber \in V.imageCache[viewport]
    THEN IF by = "preload" THEN SettlePreload(V) ELSE V
    ELSE [V EXCEPT !.imageLoads = Append(@, NewImage(viewport, sliceNumber, by))]

\* loadInitialImages from the view in place k: await loadAndDisplaySlice(viewport, 0)
\* for one view after the other, then preloadAllImages()
RECURSIVE LoadInitialImages(_, _)
LoadInitialImages(V, k) ==
  IF k > Len(InitialOrder)
    THEN PreloadAllImages([V EXCEPT !.preload.initial = k])
    ELSE LET V1 == LoadAndDisplaySlice([V EXCEPT !.preload.initial = k],
                                       InitialOrder[k], 0, "initial")
         IN IF Len(V1.imageLoads) > Len(V.imageLoads)
              THEN V1
              ELSE LoadInitialImages(V1, k + 1)

\* loadMRIData: the manifest fetched, initializeImageCounters (total = length),
\* initializeViewer (listeners attached, loadInitialImages started)
LoadMRIData(V, data) ==
  LoadInitialImages(
    [V EXCEPT !.mriData = data,
              !.imageCounters = [v \in DOMAIN data |-> [total |-> data[v], loaded |-> 0]]],
    1)

\* the viewer once every image of the manifest has been loaded and none has failed
ViewerPreloaded(data) ==
  [NewViewer EXCEPT !.mriData = data,
                    !.imageCache = [v \in DOMAIN data |-> 0 .. data[v] - 1],
                    !.imageCounters =
                       [v \in DOMAIN data |-> [total |-> data[v], loaded |-> data[v]]],
                    !.canvas = [v \in DOMAIN data |-> 0],
                    !.preload.initial = Len(InitialOrder) + 1]

\* the code that waits for an image, resumed: loadAndDisplaySlice draws
\* imageCache[viewport][sliceNumber] (and loadInitialImages goes on to the next
\* view), the preload counts its promise as settled, failedImages.push on failure
AfterImage(V, ld, ok) ==
  LET drawn == IF ok THEN [V EXCEPT !.canvas[ld.viewport] = ld.slice] ELSE V
  IN CASE ld.by = "display" -> drawn
       [] ld.by = "initial" -> LoadInitialImages(drawn, V.preload.initial + 1)
       [] ld.by = "preload" ->
            IF ok
              THEN SettlePreload(V)
              ELSE SettlePreload([V EXCEPT !.preload.failed = Append(@, <<ld.viewport, ld.slice>>)])
       [] ld.by = "retry" -> V

\* loaded++ of loadAndDisplaySlice: if (loaded < total); of preloadSingleImage: always
CountLoaded(counter, by) ==
  IF by \in {"preload", "retry"} \/ counter.loaded < counter.total
    THEN [counter EXCEPT !.loaded = @ + 1]
    ELSE counter

\* img.onload (img2.onload): the image stored, the counter, resolve()
OnLoad(V, i) ==
  LET ld == V.imageLoads[i]
  IN AfterImage([V EXCEPT !.imageCache[ld.viewport] = @ \cup {ld.slice},
                          !.imageCounters[ld.viewport] = CountLoaded(@, ld.by),
                          !.imageLoads = DropAt(@, i)],
                ld, TRUE)

\* img.onerror: a second Image without crossOrigin; img2.onerror: reject
OnError(V, i) ==
  LET ld == V.imageLoads[i]
      V1 == [V EXCEPT !.preload.errors = @ + 1]
  IN IF ld.pc = "cors"
       THEN [V1 EXCEPT !.imageLoads[i].pc = "nocors"]
       ELSE AfterImage([V1 EXCEPT !.imageLoads = DropAt(@, i)], ld, FALSE)

\* retryFailedImages(failedImages): preloadSingleImage for each of them
RECURSIVE RetryFailedImages(_, _)
RetryFailedImages(V, failedImages) ==
  IF failedImages = <<>>
    THEN V
    ELSE RetryFailedImages(
           PreloadSingleImage(V, Head(failedImages)[1], Head(failedImages)[2], "retry"),
           Tail(failedImages))

\* ------------------------------------------------- both sets of views
\* Both programs with 21 slices a view, their inputs counted.
MaxInputs == 3

RawXs == {0, 150}
RawYs == {90, 300}

Counted ==
  /\ inputs < MaxInputs
  /\ inputs' = inputs + 1

CanvasClick(sourceViewport, rawX, rawY) ==
  Counted /\ VWrite(HandleCanvasClick(VCur, rawX, rawY, sourceViewport))

CanvasScroll(viewport, deltaY) ==
  Counted /\ VWrite(HandleCanvasScroll(VCur, deltaY, viewport))

KeyDown(key) ==
  Counted /\ VWrite(HandleKeyNavigation(VCur, key))

\* the focus and blur listeners of a canvas
CanvasFocus(viewport) ==
  Counted /\ VWrite([VCur EXCEPT !.focusedViewport = viewport])

CanvasBlur ==
  Counted /\ VWrite([VCur EXCEPT !.focusedViewport = "null"])

ViewportClick(sourceViewport, x, y, rendered) ==
  Counted /\ MWrite(HandleViewportClick(Called, sourceViewport, x, y, rendered, rendered))

ViewportScroll(viewport, deltaY) ==
  Counted /\ MWrite(HandleScroll(Called, viewport, deltaY))

\* the manifest of the session: 21 images a view
FullManifest == [v \in Views |-> 21]

\* testInit has constructed the manager and awaited loadCorrelationData; the viewer
\* has loaded its manifest and all its images
InitViews ==
  /\ totalSlices = TestTotalSlices
  /\ currentSlices = [v \in Views |-> TestTotalSlices[v] \div 2]
  /\ \E ok \in BOOLEAN :
       /\ correlationData = IF ok THEN "table" ELSE "empty"
       /\ coefficientKeys = IF ok THEN DOMAIN Coefficients ELSE {}
  /\ sliceupdates = <<>>
  /\ rejected = FALSE
  /\ CacheConstructor
  /\ ViewerIs(ViewerPreloaded(FullManifest))
  /\ NoPoint

NextViews ==
  \/ \E v \in Views, x \in RawXs, y \in RawYs : CanvasClick(v, x, y)
  \/ \E v \in Views, deltaY \in DeltaYs : CanvasScroll(v, deltaY)
  \/ \E key \in KeyInputs : KeyDown(key)
  \/ \E v \in Views : CanvasFocus(v)
  \/ CanvasBlur
  \/ \E v \in Views, x \in ClickXs, y \in ClickYs : ViewportClick(v, x, y, 100)
  \/ \E v \in Views, deltaY \in DeltaYs : ViewportScroll(v, deltaY)

SpecViews == InitViews /\ [][NextViews]_vars

\* ------------------------------------------------- the viewer's images
\* The viewer from the moment its manifest has arrived, with short manifests, a few
\* inputs of the user and a few image errors.
MaxImageInputs == 2
MaxImageErrors == 2

ManifestInputs ==
  {[sagittal |-> 2, axial |-> 2, coronal |-> 1],
   [sagittal |-> 1, axial |-> 3, coronal |-> 1]}

\* an image arrives
ImageLoads(i) ==
  /\ i \in 1 .. Len(imageLoads)
  /\ VWrite(OnLoad(VCur, i))
  /\ UNCHANGED inputs

\* an image fails to load
ImageFails(i) ==
  /\ i \in 1 .. Len(imageLoads)
  /\ preload.errors < MaxImageErrors
  /\ VWrite(OnError(VCur, i))
  /\ UNCHANGED inputs

\* the next timer of preloadAllImages fires: preloadSingleImage(viewport, i)
PreloadTimerFires ==
  /\ preload.timers # <<>>
  /\ LET t == Head(preload.timers)
     IN VWrite(PreloadSingleImage([VCur EXCEPT !.preload.timers = Tail(@)],
                                  t[1], t[2], "preload"))
  /\ UNCHANGED inputs

\* the 2 s timer of preloadAllImages fires: retryFailedImages(failedImages)
RetryTimerFires ==
  /\ preload.retry
  /\ VWrite(RetryFailedImages([VCur EXCEPT !.preload.retry = FALSE, !.preload.failed = <<>>],
                              preload.failed))
  /\ UNCHANGED inputs

InitImages ==
  /\ ManagerConstructor(TestTotalSlices)
  /\ CacheConstructor
  /\ \E data \in ManifestInputs : ViewerIs(LoadMRIData(NewViewer, data))
  /\ NoPoint

NextImages ==
  \/ \E v \in Views, x \in RawXs, y \in RawYs : inputs < MaxImageInputs /\ CanvasClick(v, x, y)
  \/ \E v \in Views, deltaY \in DeltaYs : inputs < MaxImageInputs /\ CanvasScroll(v, deltaY)
  \/ \E key \in KeyInputs : inputs < MaxImageInputs /\ KeyDown(key)
  \/ \E v \in Views : inputs < MaxImageInputs /\ CanvasFocus(v)
  \/ inputs < MaxImageInputs /\ CanvasBlur
  \/ \E i \in 1 .. Len(imageLoads) : ImageLoads(i)
  \/ \E i \in 1 .. Len(imageLoads) : ImageFails(i)
  \/ PreloadTimerFires
  \/ RetryTimerFires

SpecImages == InitImages /\ [][NextImages]_vars

\* ------------------------------------------ the two calculateSlice functions
\* The normalized points are the tenths of [0, 1] x [0, 1]; on them the sums of
\* the model, which are exact, round as the sums in double precision do.
Unit == 10

Points ==
  {[entry |-> e, x |-> x, y |-> y] : e \in DOMAIN Coefficients, x \in 0 .. Unit, y \in 0 .. Unit}

\* Both functions applied to the entry and the normalized point (x / Unit, y / Unit).
\* The manager is given the point as its click: yNormalized = (height - y) / height.
Calculate ==
  /\ selected = <<>>
  /\ selected' =
       <<[viewer |-> ViewerCalculateSlice(point.x, point.y, Unit, Coefficients[point.entry]),
          manager |-> CalculateSlice(Coefficients[point.entry],
                                     point.x, Unit - point.y, Unit, Unit)]>>
  /\ UNCHANGED <<point, inputs>>
  /\ UNCHANGED managerVars
  /\ UNCHANGED viewerVars
  /\ UNCHANGED cacheVars

InitFormula ==
  /\ ManagerConstructor(TestTotalSlices)
  /\ CacheConstructor
  /\ ViewerConstructor
  /\ inputs = 0
  /\ point \in Points
  /\ selected = <<>>

SpecFormula == InitFormula /\ [][Calculate]_vars

\* processBatch between two batches of a longer phase: the tasks of the batches so
\* far have settled and have been counted, the continuation of allSettled is queued.
Counts ==
  {t \in [completed : 0 .. MaxCount, failed : 0 .. MaxCount, skipped : 0 .. MaxCount] :
     t.completed + t.failed + t.skipped > 0}

InitDelay ==
  /\ ManagerConstructor(TestTotalSlices)
  /\ ViewerConstructor
  /\ NoPoint
  /\ cache = EmptyMap
  /\ loadingPromises = EmptyMap
  /\ isPreloading = TRUE
  /\ loadingCount = 0
  /\ cacheStats = ZeroStats
  /\ failedUrls = {}
  /\ retryDelays = EmptyMap
  /\ loads = <<>>
  /\ calls = <<>>
  /\ \E t \in Counts :
       passes = <<[NewPass(DefaultPrioritySlices) EXCEPT !.phase = 2,
                                                        !.completed = t.completed,
                                                        !.failed = t.failed,
                                                        !.skipped = t.skipped]>>
  /\ restarts = 0
  /\ events = 0
  /\ queue = <<<<"batch", 1>>>>
  /\ clearedUrls = {}
  /\ nfail = 0
  /\ late = {}

SpecDelay == InitDelay /\ [][RunProcessBatch]_vars

\* ============================================================== claims
\* a load between its start and the settling of its promise
InProgress(l) == loads[l].pc \in {"delay", "fetch", "backoff"}
LoadsInProgress(key) == {l \in LoadIds : loads[l].key = key /\ InProgress(l)}
\* the loads whose fetch is out on the network and awaited
InFlight == {l \in LoadIds : loads[l].pc = "fetch"}
ActivePasses == {p \in PassIds : passes[p].pc # "done"}
\* the getImage calls started by the step
NewCalls == {c \in DOMAIN calls' : c \notin DOMAIN calls}
\* the step is a call of clearCache
ClearCacheStep == Commit(ClearCacheCall(External(Cur)))

\* C1: at any time at most one load is in progress for a cache key, whatever the
\* interleaving of getImage, preloadImages, restartPreloading and clearCache.
C1_OneLoadPerKey ==
  \A key \in Keys : Cardinality(LoadsInProgress(key)) <= 1

\* C2: the number of fetches in flight over all keys never exceeds maxConcurrentLoads.
C2_AtMostKInFlight ==
  Cardinality(InFlight) <= maxConcurrentLoads

\* C3: at most one preload pass is running at any time, also when restartPreloading
\* is called during a pass.
C3_OnePassAtATime ==
  Cardinality(ActivePasses) <= 1

\* C4: a load that has used up its attempts leaves its URL in failedUrls, and a
\* getImage for a URL that is in failedUrls fails (its load is rejected at once)
\* without a fetch being started.
C4_BlacklistedFailsWithoutFetch ==
  [][/\ \A l \in LoadIds :
          (InProgress(l) /\ loads'[l].pc = "rejected" /\ loads'[l].err # "permanent")
            => loads[l].url \in failedUrls'
     /\ \A c \in NewCalls :
          calls'[c].url \in failedUrls
            => /\ calls'[c].pc = "loading"
               /\ loads'[calls'[c].load].pc = "rejected"
               /\ loads'[calls'[c].load].attempts = 0]_vars

\* C5: the first getImage after clearFailedUrls for a URL that was blacklisted, its
\* key not being cached, starts a new load that fetches at once (no stored delay
\* to wait for) with the full budget of attempts.
C5_FreshFetchAfterClear ==
  [][\A c \in NewCalls :
       (calls'[c].url \in clearedUrls /\ calls'[c].key \notin DOMAIN cache)
         => /\ calls'[c].pc = "loading"
            /\ calls'[c].load \notin LoadIds
            /\ loads'[calls'[c].load].pc = "fetch"
            /\ loads'[calls'[c].load].attempts = 1
            /\ loads'[calls'[c].load].retries = Retries]_vars

\* C6: a load never makes more than 1 + retries = 3 fetch attempts.
C6_AtMostThreeAttempts ==
  \A l \in LoadIds : loads[l].attempts <= 1 + Retries

C6_Witness ==
  \E l \in LoadIds :
    loads[l].pc = "rejected" /\ loads[l].err # "permanent" /\ loads[l].attempts = 1 + Retries

\* C7: a getImage call is rejected only with its URL in failedUrls, and then either
\* by the blacklist check or after its load has made all its 3 attempts.
C7_RejectsOnlyWhenExhausted ==
  [][\A c \in CallIds :
       (calls[c].pc # "rejected" /\ calls'[c].pc = "rejected")
         => /\ calls[c].url \in failedUrls
            /\ \/ loads[calls[c].load].err = "permanent"
               \/ loads[calls[c].load].attempts = 1 + Retries]_vars

C7_Witness ==
  \E c, d \in CallIds :
    /\ calls[c].pc = "rejected" /\ calls[c].err \in {"timeout", "http", "type"}
    /\ calls[d].pc = "rejected" /\ calls[d].err = "permanent"

\* C8: a getImage for a cached key returns the stored handle at once, counts one hit
\* and no miss and starts no load; the handle stored for a key does not change while
\* the key stays cached, so that repeated requests return the same handle.
C8_HitReturnsSameHandle ==
  [][/\ \A c \in NewCalls :
          calls'[c].key \in DOMAIN cache
            => /\ calls'[c].pc = "resolved"
               /\ calls'[c].result = cache[calls'[c].key]
               /\ cacheStats'.hits = cacheStats.hits + 1
               /\ cacheStats'.misses = cacheStats.misses
               /\ loads' = loads
     /\ \A k \in DOMAIN cache \cap DOMAIN cache' : cache'[k] = cache[k]]_vars

\* C9: a key that is in the cache is still in the cache after every step that is
\* not a call of clearCache.
C9_CachedStaysCached ==
  [][ClearCacheStep \/ \A k \in DOMAIN cache : k \in DOMAIN cache']_vars

\* a key is cached in a state that follows a load failure and a clearFailedUrls
C9_Witness ==
  /\ DOMAIN cache # {}
  /\ clearedUrls # {}
  /\ failedUrls = {}

\* C10: right after clearCache the cache, loadingPromises, failedUrls and retryDelays
\* are empty and the four counters are 0.
C10_ClearCacheEmptiesAll ==
  [][ClearCacheStep
       => /\ cache' = EmptyMap
          /\ loadingPromises' = EmptyMap
          /\ failedUrls' = {}
          /\ retryDelays' = EmptyMap
          /\ cacheStats' = ZeroStats]_vars

C10_Witness ==
  /\ \E c \in CallIds : calls[c].pc = "rejected"
  /\ \E c \in CallIds : calls[c].pc = "resolved"
  /\ cache = EmptyMap /\ failedUrls = {} /\ retryDelays = EmptyMap
  /\ cacheStats = ZeroStats

\* the step is a call of clearFailedUrls
ClearFailedUrlsStep == Commit(ClearFailedUrlsCall(External(Cur)))

\* C11: clearFailedUrls changes only failedUrls and retryDelays: the cache,
\* loadingPromises, loadingCount, isPreloading and the four counters keep their values.
C11_ClearFailedUrlsFrame ==
  [][ClearFailedUrlsStep
       => /\ failedUrls' = {}
          /\ retryDelays' = EmptyMap
          /\ cache' = cache
          /\ loadingPromises' = loadingPromises
          /\ loadingCount' = loadingCount
          /\ isPreloading' = isPreloading
          /\ cacheStats' = cacheStats]_vars

\* clearFailedUrls has emptied a blacklist and a delay table that were not empty,
\* with a counter that is not 0
C11_Witness ==
  /\ clearedUrls # {}
  /\ failedUrls = {}
  /\ retryDelays = EmptyMap
  /\ cacheStats.failed > 0
  /\ cacheStats.misses > 0

\* the keys of the priority phase of a pass
PriorityKeys(pass) == {PriorityTasks(pass.prio)[i] : i \in 1 .. Len(PriorityTasks(pass.prio))}

\* C12: within one preload pass a getImage for a non-priority slice is started only
\* when every priority task of the pass has run and every getImage the pass started
\* for a priority slice has settled.
C12_PriorityBeforeRemaining ==
  [][\A c \in NewCalls :
       LET p == calls'[c].pass
       IN (p # 0 /\ calls'[c].key \notin PriorityKeys(passes'[p]))
            => /\ passes'[p].phase = 2
               /\ \A d \in CallIds :
                    (calls[d].pass = p /\ calls[d].key \in PriorityKeys(passes[p]))
                      => Settled(calls[d].pc)]_vars

\* a pass has started a load of a non-priority slice after priority loads of its own,
\* one of which failed
C12_Witness ==
  \E c \in CallIds :
    /\ calls[c].pass # 0
    /\ calls[c].key \notin PriorityKeys(passes[calls[c].pass])
    /\ \E d \in CallIds :
         /\ calls[d].pass = calls[c].pass
         /\ calls[d].key \in PriorityKeys(passes[calls[c].pass])
         /\ calls[d].pc = "rejected"

\* C13: when every fetch succeeds, a preload pass that has finished leaves every
\* (view, slice) pair of the manifest in the cache, whatever priority indices it got.
C13_PassCachesEverything ==
  \A p \in PassIds : passes[p].pc = "done" => Keys \subseteq DOMAIN cache

\* a pass has finished whose priority index lies beyond the length of two views
C13_Witness ==
  \E p \in PassIds : passes[p].pc = "done" /\ passes[p].prio = <<1>>

\* the getImage calls a pass has made for a key
CallsOfPass(p, key) == {c \in CallIds : calls[c].pass = p /\ calls[c].key = key}

\* C14: when processBatch returns, every task of the phase has been counted once as
\* completed, failed or skipped, whatever failed before it, and a pass never asks
\* twice for the same key.
C14_EveryTaskRunsOnce ==
  \A p \in PassIds :
    /\ passes[p].pc = "phase"
         => passes[p].completed + passes[p].failed + passes[p].skipped
              = Len(TasksOf(passes[p]))
    /\ \A key \in Keys : Cardinality(CallsOfPass(p, key)) <= 1

\* a phase of more than one batch has returned, with a task that failed and a task
\* that was loaded
C14_Witness ==
  \E p \in PassIds :
    /\ passes[p].pc = "phase"
    /\ Len(TasksOf(passes[p])) > maxConcurrentLoads
    /\ passes[p].failed > 0
    /\ passes[p].completed > 0

\* the step is the answer of a fetch whose attempt has timed out
LateStep == late' \subseteq late /\ late' # late

\* C15: the answer of a fetch whose attempt has timed out changes nothing: no cache
\* entry, no load or getImage call settled, no counter, no retry delay.
C15_LateAnswerIgnored ==
  [][LateStep
       => /\ cache' = cache
          /\ loads' = loads
          /\ calls' = calls
          /\ queue' = queue
          /\ cacheStats' = cacheStats
          /\ retryDelays' = retryDelays
          /\ loadingPromises' = loadingPromises
          /\ loadingCount' = loadingCount
          /\ failedUrls' = failedUrls]_vars

\* a load whose first attempt timed out has been resolved by a later attempt and
\* cached, and the fetch of the timed-out attempt has answered
C15_Witness ==
  /\ late = {}
  /\ \E l \in LoadIds :
       /\ loads[l].pc = "resolved"
       /\ loads[l].attempts > 1
       /\ loads[l].key \in DOMAIN cache

\* the loads whose fetch is answered with an image by the step
LoadsResolved == {l \in LoadIds : loads[l].pc = "fetch" /\ loads'[l].pc = "resolved"}

\* C16: a load that succeeds leaves no retry delay for its URL, and a retry delay is
\* removed only by such a success, by clearFailedUrls or by clearCache.
C16_RetryDelayRemoval ==
  [][/\ \A l \in LoadsResolved : RetryKey(loads[l].url) \notin DOMAIN retryDelays'
     /\ \A k \in DOMAIN retryDelays \ DOMAIN retryDelays' :
          \/ \E l \in LoadsResolved : k = RetryKey(loads[l].url)
          \/ ClearCacheStep
          \/ ClearFailedUrlsStep]_vars

\* a load has succeeded after a failed attempt, which had stored a delay, and no
\* clearCache or clearFailedUrls was called
C16_Witness ==
  /\ events = 1
  /\ retryDelays = EmptyMap
  /\ \E l \in LoadIds : loads[l].pc = "resolved" /\ loads[l].attempts > 1

\* C17: the pause before the next batch is 100 ms for a failure ratio of at most 0.1,
\* 200 ms for a ratio above 0.1 and at most 0.3, 500 ms for a ratio above 0.3, and it
\* does not decrease when the ratio grows.
C17_PauseGrowsWithFailures ==
  \A p \in PassIds :
    passes[p].pc = "pause"
      => LET f == passes[p].failed
             t == passes[p].completed + passes[p].failed + passes[p].skipped
         IN /\ passes[p].delay
                 = (IF 10 * f <= t THEN 100 ELSE IF 10 * f <= 3 * t THEN 200 ELSE 500)
            /\ \A u \in Counts :
                 f * (u.completed + u.failed + u.skipped) <= u.failed * t
                   => passes[p].delay <= BatchDelay(u.completed, u.failed, u.skipped)

\* a pause computed for a failure ratio of exactly 0.3
C17_Witness ==
  \E p \in PassIds :
    /\ passes[p].pc = "pause"
    /\ passes[p].failed = 3
    /\ passes[p].completed + passes[p].skipped = 7
    /\ passes[p].delay = 200

\* C18: every current slice of the manager is an index of its view, at any time:
\* 0 <= currentSlices[v] <= totalSlices[v] - 1.
C18_SliceInRange ==
  \A v \in Views :
    /\ currentSlices[v] # NaN
    /\ 0 <= currentSlices[v]
    /\ currentSlices[v] <= totalSlices[v] - 1

\* i clamped into [lo, hi]
Clamped(i, lo, hi) == IF i < lo THEN lo ELSE IF i > hi THEN hi ELSE i

\* the slice numbers among the arguments
IntegerSliceInputs == SliceInputs \ {NaN}

\* C19: setCurrentSlice(view, i) with an integer i leaves currentSlices[view] equal to
\* i clamped into [0, totalSlices[view] - 1]; on a view of 21 slices -5 gives 0 and
\* 999 gives 20.
C19_SetCurrentSliceClamps ==
  [][\A v \in Views, i \in IntegerSliceInputs, suppressEvent \in BOOLEAN :
       CallSetCurrentSlice(v, i, suppressEvent)
         => /\ currentSlices'[v] = Clamped(i, 0, totalSlices[v] - 1)
            /\ (totalSlices[v] = 21 /\ i = -5) => currentSlices'[v] = 0
            /\ (totalSlices[v] = 21 /\ i = 999) => currentSlices'[v] = 20]_vars

\* a view of 21 slices has been set to slice 20, with its notification
C19_Witness ==
  \E v \in Views :
    /\ totalSlices[v] = 21
    /\ currentSlices[v] = 20
    /\ Len(sliceupdates) = 1
    /\ sliceupdates[1].viewport = v
    /\ sliceupdates[1].sliceNumber = 20

\* C20: setCurrentSlice with an integer slice number dispatches one notification when
\* the clamped value differs from the stored one and suppressEvent is false, and none
\* otherwise; with suppressEvent the slice is still written; when the clamped value
\* is the stored one nothing changes.
C20_NotifiesOnChangeOnly ==
  [][\A v \in Views, i \in IntegerSliceInputs, suppressEvent \in BOOLEAN :
       CallSetCurrentSlice(v, i, suppressEvent)
         => LET c == Clamped(i, 0, totalSlices[v] - 1)
            IN IF c # currentSlices[v]
                 THEN /\ currentSlices' = [currentSlices EXCEPT ![v] = c]
                      /\ sliceupdates'
                           = (IF suppressEvent
                                THEN <<>>
                                ELSE <<[viewport |-> v, sliceNumber |-> c,
                                        currentSlices |-> currentSlices']>>)
                 ELSE /\ currentSlices' = currentSlices
                      /\ sliceupdates' = <<>>
                      /\ UNCHANGED <<totalSlices, correlationData>>
                      /\ UNCHANGED cacheVars]_vars

\* a view of 21 slices has left its initial slice for slice 0 and the latest call
\* has dispatched nothing
C20_Witness ==
  \E v \in Views :
    /\ totalSlices[v] = 21
    /\ currentSlices[v] = 0
    /\ sliceupdates = <<>>

\* C21: each notification carries the changed view, its new slice and a snapshot of
\* the slices of all views as they are when it is dispatched: the slices before it
\* with the new slice written; the snapshot of the last notification of a call is
\* currentSlices after the call, and the write that follows a notification leaves
\* its snapshot as it was.
C21_NotificationSnapshot ==
  [][\A k \in 1 .. Len(sliceupdates') :
       LET e == sliceupdates'[k]
           before == IF k = 1 THEN currentSlices ELSE sliceupdates'[k - 1].currentSlices
       IN /\ e.viewport \in Views
          /\ e.currentSlices = [before EXCEPT ![e.viewport] = e.sliceNumber]
          /\ k = Len(sliceupdates') => e.currentSlices = currentSlices']_vars

\* a click has dispatched two notifications and the snapshot of the first still
\* shows the second sibling's slice as it was before the second write
C21_Witness ==
  /\ Len(sliceupdates) = 2
  /\ sliceupdates[1].currentSlices # currentSlices
  /\ sliceupdates[2].currentSlices = currentSlices

\* the clicks of the manager: source view, point, rendered size
ClickInputs == Views \X ClickXs \X ClickYs \X RenderedSizes \X RenderedSizes

\* the table holds both entries that a click in the view reads
HasEntries(sourceViewport) ==
  \A i \in 1 .. 2 :
    EntryKey(sourceViewport, Siblings(sourceViewport)[i]) \in coefficientKeys

\* C24: a click that the table serves has written both siblings and has dispatched
\* the notification of each sibling that changed when the call returns: no step
\* ends with one sibling written and the other still to be written.
C24_ClickIsAtomic ==
  [][correlationData = "table"
       => \A v \in Views, x \in ClickXs, y \in ClickYs :
            (HasEntries(v) /\ ViewportClick(v, x, y, 100))
              => /\ ~rejected'
                 /\ \A i \in 1 .. 2 :
                      LET sibling == Siblings(v)[i]
                          new == CalculateSlice(CoefficientsOf(v, sibling),
                                                x, y, 100, 100)
                      IN /\ currentSlices'[sibling] = ClampSlice(sibling, new)
                         /\ currentSlices'[sibling] # currentSlices[sibling]
                              => \E k \in 1 .. Len(sliceupdates') :
                                   /\ sliceupdates'[k].viewport = sibling
                                   /\ sliceupdates'[k].sliceNumber
                                        = currentSlices'[sibling]]_vars

\* a click has moved both siblings and has dispatched a notification for each
C24_Witness ==
  /\ correlationData = "table"
  /\ ~rejected
  /\ Len(sliceupdates) = 2
  /\ sliceupdates[1].viewport # sliceupdates[2].viewport
  /\ \A k \in 1 .. 2 :
       currentSlices[sliceupdates[k].viewport] = sliceupdates[k].sliceNumber

\* C29: a failed load of the table does not throw and leaves correlationData = {};
\* every click after it leaves all slices as they are, dispatches nothing and does
\* not fail.
C29_FailedLoadMakesClicksNoOps ==
  [][/\ \A keys \in TableInputs :
          LoadCorrelationData(FALSE, keys) => correlationData' = "empty" /\ ~rejected'
     /\ correlationData = "empty"
          => \A c \in ClickInputs :
               CallHandleViewportClick(c[1], c[2], c[3], c[4], c[5])
                 => /\ currentSlices' = currentSlices
                    /\ sliceupdates' = <<>>
                    /\ ~rejected'
                    /\ correlationData' = "empty"]_vars

\* the load has failed, and the state is the one a click leaves: nothing dispatched,
\* nothing thrown, every view on the slice the constructor gave it
C29_Witness ==
  /\ correlationData = "empty"
  /\ sliceupdates = <<>>
  /\ ~rejected
  /\ \A v \in Views : currentSlices[v] = totalSlices[v] \div 2

\* C30: a click that reads an entry the loaded table does not have fails with an
\* error; neither sibling is written and nothing is dispatched.
C30_MissingEntryFails ==
  [][correlationData = "table"
       => \A c \in ClickInputs :
            (~HasEntries(c[1]) /\ CallHandleViewportClick(c[1], c[2], c[3], c[4], c[5]))
              => /\ rejected'
                 /\ currentSlices' = currentSlices
                 /\ sliceupdates' = <<>>]_vars

\* a click has failed on a table that lacks an entry
C30_Witness ==
  /\ rejected
  /\ correlationData = "table"
  /\ coefficientKeys # DOMAIN Coefficients
  /\ sliceupdates = <<>>

\* the slices of two states differ by at most one in the view and not at all in
\* the other views
StepsOnly(viewport, before, after) ==
  /\ after[viewport] - before[viewport] \in {-1, 0, 1}
  /\ \A u \in Views \ {viewport} : after[u] = before[u]

\* C22: a wheel scroll or an arrow key on one view changes the slice of that view
\* by at most one and leaves the slices of the other two views as they are; it
\* notifies for no other view.
C22_StepMovesOneView ==
  [][/\ \A v \in Views, deltaY \in DeltaYs :
          /\ CanvasScroll(v, deltaY) => StepsOnly(v, viewerSlices, viewerSlices')
          /\ ViewportScroll(v, deltaY)
               => /\ StepsOnly(v, currentSlices, currentSlices')
                  /\ \A k \in 1 .. Len(sliceupdates') : sliceupdates'[k].viewport = v
     /\ \A key \in KeyInputs :
          KeyDown(key)
            => IF focusedViewport = "null"
                 THEN viewerSlices' = viewerSlices
                 ELSE StepsOnly(focusedViewport, viewerSlices, viewerSlices')]_vars

\* one view of the viewer and one view of the manager have moved by one slice,
\* the other views are where the constructors have put them
C22_Witness ==
  /\ \E v \in Views :
       viewerSlices[v] = 1 /\ \A u \in Views \ {v} : viewerSlices[u] = 0
  /\ \E v \in Views :
       /\ currentSlices[v] \in {9, 11}
       /\ \A u \in Views \ {v} : currentSlices[u] = 10
       /\ Len(sliceupdates) = 1
       /\ sliceupdates[1].viewport = v

\* C23: a click in a view writes the slices of the two other views, each with the
\* slice calculated for it, and leaves the slice of the clicked view as it is; so
\* for the viewer and, once its table is loaded, for the manager.
C23_ClickWritesTheTwoSiblings ==
  [][/\ \A v \in Views, x \in RawXs, y \in RawYs :
          CanvasClick(v, x, y)
            => /\ viewerSlices'[v] = viewerSlices[v]
               /\ \A u \in Views \ {v} :
                    viewerSlices'[u]
                      = ViewerCalculateSlice(x, y, CanvasSize, CoefficientsOf(v, u))
     /\ correlationData = "table"
          => \A v \in Views, x \in ClickXs, y \in ClickYs :
               ViewportClick(v, x, y, 100)
                 => /\ currentSlices'[v] = currentSlices[v]
                    /\ \A u \in Views \ {v} :
                         currentSlices'[u]
                           = ClampSlice(u, CalculateSlice(CoefficientsOf(v, u),
                                                          x, y, 100, 100))
                    /\ \A k \in 1 .. Len(sliceupdates') :
                         sliceupdates'[k].viewport # v]_vars

\* a click in the viewer has moved two views off slice 0 and not the third; a
\* click in the manager has moved two views off slice 10 and not the third
C23_Witness ==
  /\ \E v \in Views :
       viewerSlices[v] = 0 /\ \A u \in Views \ {v} : viewerSlices[u] > 0
  /\ \E v \in Views :
       /\ currentSlices[v] = 10
       /\ \A u \in Views \ {v} : currentSlices[u] # 10
       /\ Len(sliceupdates) = 2
       /\ \A k \in 1 .. 2 : sliceupdates[k].viewport # v

\* C25: with three views of 21 slices and the table loaded, a click of the manager
\* at x = 0.5 and flipped y = 0.3 (x = 50, y = 70 on a surface of 100 by 100)
\* dispatches two notifications, one for each sibling, each with
\* round(a * y + b * x - c) clamped to [0, 20] for the coefficients of its pair.
C25_GoldenClick ==
  [][(correlationData = "table" /\ \A u \in Views : totalSlices[u] = 21)
       => \A v \in Views :
            ViewportClick(v, 50, 70, 100)
              => /\ Len(sliceupdates') = 2
                 /\ \A u \in Views \ {v} :
                      \E k \in 1 .. 2 :
                        /\ sliceupdates'[k].viewport = u
                        /\ sliceupdates'[k].sliceNumber
                             = ViewerCalculateSlice(50, 30, 100, CoefficientsOf(v, u))]_vars

\* C26: for every entry of the table and every normalized point of [0, 1] x [0, 1],
\* each of the two calculateSlice functions returns an integer of 0 .. 20; so at
\* the corners (0, 0) and (1, 1).
C26_SliceInTableRange ==
  \A k \in 1 .. Len(selected) :
    /\ selected[k].viewer \in minSlice .. maxSlice
    /\ selected[k].manager \in minSlice .. maxSlice

\* at the corner (1, 1) an entry whose sums are above 20 in both conventions has
\* been clamped to 20
C26_Witness ==
  /\ point.x = Unit
  /\ point.y = Unit
  /\ selected = <<[viewer |-> 20, manager |-> 20]>>

\* the viewer's slice is an integer nearest to a * y + b * x - c clamped to [0, 20]
NearestClamped(p, slice) ==
  LET coefficients == Coefficients[p.entry]
      d == 100 * Unit
      n == coefficients.a * p.y + coefficients.b * p.x - coefficients.c * Unit
      clamped == IF n < 0 THEN 0 ELSE IF n > 20 * d THEN 20 * d ELSE n
  IN /\ slice \in 0 .. 20
     /\ 2 * (slice * d - clamped) <= d
     /\ 2 * (clamped - slice * d) <= d

\* the point at hand is (0.5, 0.3)
IsGoldenPoint == 10 * point.x = 5 * Unit /\ 10 * point.y = 3 * Unit

C28_ConventionsDiffer ==
  \E x \in 0 .. Unit, y \in 0 .. Unit :
    ViewerCalculateSlice(x, y, Unit, Coefficients[point.entry])
      # CalculateSlice(Coefficients[point.entry], x, Unit - y, Unit, Unit)

\* both functions have been applied to a point and have selected different slices
C28_Witness ==
  /\ Len(selected) = 1
  /\ selected[1].viewer # selected[1].manager

\* C32: between a failed attempt and the next fetch attempt of the load the backoff
\* delay is waited once: when the backoff wait is over the load does not start a
\* second wait before it fetches.
C32_BackoffWaitedOnce ==
  [][\A l \in LoadIds :
       (loads[l].pc = "backoff" /\ loads'[l].pc # "backoff") => loads'[l].pc # "delay"]_vars

\* the keys that have a load in progress
KeysLoading == {key \in Keys : LoadsInProgress(key) # {}}

\* C33: loadingCount, as getStats reports it, is the number of keys whose load is in
\* progress, whichever attempt the loads are in.
C33_LoadingCountIsKeysLoading ==
  loadingCount = Cardinality(KeysLoading)

\* C34: loadingCount is never negative, and it is 0 whenever no load is in progress.
C34_LoadingCountSettles ==
  /\ loadingCount >= 0
  /\ KeysLoading = {} => loadingCount = 0

\* no load is in progress after one load failed for good, one was refused for its
\* blacklisted URL and one succeeded
C34_Witness ==
  /\ KeysLoading = {}
  /\ loadingCount = 0
  /\ \E l \in DOMAIN loads : loads[l].pc = "rejected" /\ loads[l].attempts = Retries + 1
  /\ \E l \in DOMAIN loads : loads[l].pc = "rejected" /\ loads[l].attempts = 0
  /\ \E l \in DOMAIN loads : loads[l].pc = "resolved"

\* the getImage calls that end in failure by the step
CallsFailed ==
  {c \in CallIds : c \in DOMAIN calls' /\ calls[c].pc # "rejected" /\ calls'[c].pc = "rejected"}

\* C35: cacheStats.failed grows by one for each getImage call that ends in failure
\* and by nothing else; clearCache alone resets it.
C35_FailedCountsFailedCalls ==
  [][\/ ClearCacheStep
     \/ cacheStats'.failed = cacheStats.failed + Cardinality(CallsFailed)]_vars

\* the getImage calls that wait for a load
Waiting == {c \in DOMAIN calls : calls[c].pc \in {"attached", "loading"}}

\* the getImage calls attached to a load that has failed for good
AttachedToFailed ==
  {c \in DOMAIN calls : calls[c].pc = "attached" /\ loads[calls[c].load].pc = "rejected"}

\* C36: when a load shared by several getImage callers fails for good, every
\* attached caller ends in failure too: none stays pending once the microtasks have
\* run, none starts a further fetch for the URL (its own loadImage is refused before
\* any fetch), and none receives a handle.
C36_AttachedCallersFail ==
  /\ [](Idle => \A c \in Waiting : ~Settled(loads[calls[c].load].pc))
  /\ [][\A c \in AttachedToFailed :
          calls'[c] # calls[c] =>
            /\ calls'[c].pc = "loading"
            /\ loads'[calls'[c].load].pc = "rejected"
            /\ loads'[calls'[c].load].attempts = 0]_vars
  /\ [][\A c \in Waiting :
          calls'[c].pc = "resolved" => loads[calls[c].load].pc = "resolved"]_vars

\* a load shared by two callers has used up its attempts: the caller that started it
\* has failed and the attached caller is about to be resumed
C36_Witness ==
  \E c \in AttachedToFailed : \E d \in DOMAIN calls :
    /\ calls[d].pc = "rejected"
    /\ calls[d].load = calls[c].load
    /\ loads[calls[c].load].attempts = Retries + 1

\* the loads whose result is in the cache
LoadsCached == {l \in LoadIds : \E key \in DOMAIN cache : cache[key] = ObjectUrl(l)}

\* C37: after clearCache the cache holds only results of loads started after the
\* clear: a load that was in progress when clearCache ran does not put its result
\* in the cache when it completes.
C37_ClearedLoadsStayOut ==
  \A l \in LoadsCached : ~loads[l].cleared

\* C40: every preload pass finishes, given that every fetch answers or times out,
\* and the step that ends it leaves isPreloading false, whether its loads have
\* succeeded or failed.
C40_PassFinishes ==
  /\ \A p \in 1 .. MaxLivePasses :
       (p \in PassIds) ~> (p \in PassIds /\ passes[p].pc = "done")
  /\ [][\A p \in PassIds :
          (passes[p].pc # "done" /\ passes'[p].pc = "done") => ~isPreloading']_vars

\* a pass has finished with a task that failed and a task that succeeded
C40_Witness ==
  \E p \in PassIds :
    /\ passes[p].pc = "done"
    /\ ~isPreloading
    /\ passes[p].failed > 0
    /\ passes[p].completed > 0

\* C31: in MRIViewer every current slice is an index of its view's image list in
\* the loaded manifest, initially and after any clicks, wheel scrolls and key
\* presses, whatever the length of the manifest.
C31_SliceInManifest ==
  \A v \in Views : viewerSlices[v] \in 0 .. mriData[v] - 1

\* no image is loading or still to be requested, and none has failed
ImagesSettled ==
  /\ imageLoads = <<>>
  /\ preload.initial > Len(InitialOrder)
  /\ preload.timers = <<>>
  /\ preload.errors = 0

\* C38: when all loads have succeeded and none is pending, the canvas of each view
\* shows the image of the view's current slice (a slice of the manifest), whatever
\* the order in which the images of the slices selected one after the other arrived.
C38_CanvasShowsCurrentSlice ==
  ImagesSettled =>
    \A v \in Views : viewerSlices[v] \in 0 .. mriData[v] - 1 => canvas[v] = viewerSlices[v]

\* C39: imageCounters[v].loaded never exceeds total and is the number of slices of
\* the view that imageCache holds.
C39_LoadedCountsCache ==
  \A v \in Views :
    /\ imageCounters[v].loaded <= imageCounters[v].total
    /\ imageCounters[v].loaded = Cardinality(imageCache[v])
====
